---- MODULE Spec2Model ----
(***************************************************************************)
(* Tower defense (wonseok-han/tower-defense): the Game loop, the tower and *)
(* enemy managers, the object pool and the living entities.                *)
(*                                                                         *)
(* Geometry.  The model follows the first leg of the enemy path, the       *)
(* waypoints (-30,210) (30,210) (90,210) (150,210), and the towers built   *)
(* on the same grid row (cell centres (210,210), (270,210), (330,210)).     *)
(* Enemies reach their goal at the end of that leg.  Every                 *)
(* point is on the line y = 210, so a point is its x coordinate, distance  *)
(* is |x2 - x1| and a normalised direction is a sign.  Lengths are in      *)
(* hundredths of a pixel, times in milliseconds, speeds in hundredths of a *)
(* pixel per second, slow strengths in percent, attack speeds in           *)
(* ten-thousandths of an attack per second.                                *)
(***************************************************************************)
EXTENDS Integers, Sequences, FiniteSets, TLC

\* ------------------------------------------------------------------ bounds
\* frames of gameplay (state PLAYING) per behaviour
MaxFrames == 56
\* frames of wave preparation per wave
MaxPrepFrames == 1
\* player operations per behaviour
MaxOps == 6
\* the player operates until this many frames of gameplay have run
OpWindow == 0

\* frame durations handed to Game.update (currentTime - lastTime)
DeltaTimes == {100}
\* canvas x coordinates of the clicks (y is 210): a path cell and three
\* buildable cells
ClickXs == {10000, 21500, 27500, 33500}

\* ----------------------------------------------------------------- helpers
Abs(x) == IF x < 0 THEN -x ELSE x

Min(a, b) == IF a < b THEN a ELSE b

Max(a, b) == IF a > b THEN a ELSE b

Sign(x) == IF x > 0 THEN 1 ELSE IF x < 0 THEN -1 ELSE 0

\* Math.round(n / d) for n >= 0, d > 0 (halves round up)
Round(n, d) == (2 * n + d) \div (2 * d)

\* Math.floor(n / d)
Floor(n, d) == n \div d

\* distance(x1, y1, x2, y2) on the line y = 210
distance(x1, x2) == Abs(x2 - x1)

\* Array.prototype.indexOf: first index of x in s, 0 when absent
IndexOf(s, x) ==
  IF \E i \in 1..Len(s) : s[i] = x
  THEN CHOOSE i \in 1..Len(s) : s[i] = x /\ \A j \in 1..(i - 1) : s[j] # x
  ELSE 0

\* Array.prototype.splice(i, 1)
Splice(s, i) == SubSeq(s, 1, i - 1) \o SubSeq(s, i + 1, Len(s))

\* the elements of an array
Elems(s) == {s[i] : i \in 1..Len(s)}

\* ------------------------------------------------------------- static data
EnemyTypes == {"scout", "knight", "dragon"}

TowerTypes == {"archer", "cannon", "magic"}

\* Scout, Knight, Dragon constructors
EnemyStats ==
  [scout  |-> [health |-> 20, speed |-> 9000, goldReward |-> 2,
               scoreReward |-> 5, damage |-> 1],
   knight |-> [health |-> 80, speed |-> 3500, goldReward |-> 5,
               scoreReward |-> 15, damage |-> 2],
   dragon |-> [health |-> 50, speed |-> 5500, goldReward |-> 8,
               scoreReward |-> 30, damage |-> 3]]

\* EnemyManager.initializePools: initial size of each pool
PoolInitialSize == [scout |-> 10, knight |-> 5, dragon |-> 3]

\* Game.setupPath: the first leg of the path, from the start off screen to
\* the waypoint (150,210); the enemies of the model reach their goal there
Path == <<-3000, 3000, 9000, 15000>>

\* ArcherTower, CannonTower, MagicTower constructors
TowerStats ==
  [archer |-> [damage |-> 12, range |-> 8500, attackSpeed |-> 25000,
               cost |-> 10, upgradeCost |-> 15, sellValue |-> 8,
               explosionRadius |-> 0, chainCount |-> 0, chainRange |-> 0,
               slowAmount |-> 0],
   cannon |-> [damage |-> 25, range |-> 13000, attackSpeed |-> 4000,
               cost |-> 25, upgradeCost |-> 40, sellValue |-> 20,
               explosionRadius |-> 8000, chainCount |-> 0, chainRange |-> 0,
               slowAmount |-> 0],
   magic  |-> [damage |-> 2, range |-> 10000, attackSpeed |-> 10000,
               cost |-> 20, upgradeCost |-> 30, sellValue |-> 15,
               explosionRadius |-> 0, chainCount |-> 3, chainRange |-> 6000,
               slowAmount |-> 36]]

\* ------------------------------------------------------------- ObjectPool
\* new ObjectPool(createFn, resetFn, initialSize) over the objects objs
NewPool(objs) == [pool |-> objs, activeObjects |-> <<>>]

\* the object ObjectPool.get returns; fresh is what createFn would build
PoolGetObj(p, fresh) ==
  IF Len(p.pool) > 0 THEN p.pool[Len(p.pool)] ELSE fresh

\* ObjectPool.get
PoolGet(p, fresh) ==
  [pool |-> IF Len(p.pool) > 0 THEN SubSeq(p.pool, 1, Len(p.pool) - 1)
            ELSE p.pool,
   activeObjects |-> Append(p.activeObjects, PoolGetObj(p, fresh))]

\* ObjectPool.release: whether the object is found active, i.e. whether
\* resetFn runs and the object goes back to the free list
PoolReleases(p, obj) == IndexOf(p.activeObjects, obj) # 0

\* a faulty release, to test the properties against: the object goes back
\* to the free list whether or not it is found active
PoolReleaseUnchecked(p, obj) ==
  [pool |-> Append(p.pool, obj),
   activeObjects |-> IF IndexOf(p.activeObjects, obj) # 0
                     THEN Splice(p.activeObjects, IndexOf(p.activeObjects, obj))
                     ELSE p.activeObjects]

\* ObjectPool.release
PoolRelease(p, obj) ==
  IF PoolReleases(p, obj)
  THEN [pool |-> Append(p.pool, obj),
        activeObjects |-> Splice(p.activeObjects, IndexOf(p.activeObjects, obj))]
  ELSE p

\* ------------------------------------------------------------ LivingEntity
\* Map with no entries
NoEffects == [k \in {} |-> [duration |-> 0, strength |-> 0]]

\* new Scout(0, 0), new Knight(0, 0), new Dragon(0, 0): Enemy and
\* LivingEntity constructors
NewEnemy(type) ==
  [enemyType |-> type,
   maxHealth |-> EnemyStats[type].health,
   health |-> EnemyStats[type].health,
   isAlive |-> TRUE,
   isDead |-> FALSE,
   invulnerable |-> FALSE,
   invulnerabilityTime |-> 0,
   position |-> 0,
   currentWaypoint |-> 0,
   currentSpeed |-> EnemyStats[type].speed,
   statusEffects |-> NoEffects]

\* a faulty takeDamage, to test the properties against: health is not
\* clamped at 0
takeDamageUnclamped(e, amount) ==
  IF e.invulnerable \/ e.isDead THEN e
  ELSE [e EXCEPT !.health = e.health - amount,
                 !.invulnerable = TRUE,
                 !.invulnerabilityTime = 100]

\* LivingEntity.takeDamage (onDamage only draws)
takeDamage(e, amount) ==
  IF e.invulnerable \/ e.isDead THEN e
  ELSE [e EXCEPT !.health = Max(0, e.health - amount),
                 !.invulnerable = TRUE,
                 !.invulnerabilityTime = 100]

\* LivingEntity.heal
heal(e, amount) ==
  IF e.isDead THEN e
  ELSE [e EXCEPT !.health = Min(e.maxHealth, e.health + amount)]

\* LivingEntity.hasStatusEffect
hasStatusEffect(e, type) == type \in DOMAIN e.statusEffects

\* applyStatusEffect that stacks: a new effect of an active kind adds its
\* duration and its strength to the entry
applyStatusEffectStacking(e, type, duration, strength) ==
  [e EXCEPT !.statusEffects =
     [k \in DOMAIN e.statusEffects \cup {type} |->
        IF k # type THEN e.statusEffects[k]
        ELSE IF type \in DOMAIN e.statusEffects
        THEN [duration |-> e.statusEffects[k].duration + duration,
              strength |-> e.statusEffects[k].strength + strength]
        ELSE [duration |-> duration, strength |-> strength]]]

\* LivingEntity.applyStatusEffect (Enemy.onStatusEffectApplied scales
\* copies of its arguments and draws)
applyStatusEffect(e, type, duration, strength) ==
  [e EXCEPT !.statusEffects =
     [k \in DOMAIN e.statusEffects \cup {type} |->
        IF k = type THEN [duration |-> duration, strength |-> strength]
        ELSE e.statusEffects[k]]]

\* LivingEntity.removeStatusEffect
removeStatusEffect(e, type) ==
  [e EXCEPT !.statusEffects =
     [k \in DOMAIN e.statusEffects \ {type} |-> e.statusEffects[k]]]

\* LivingEntity.updateStatusEffects
updateStatusEffects(e, dt) ==
  LET kept == {k \in DOMAIN e.statusEffects :
                 e.statusEffects[k].duration - dt > 0}
  IN [e EXCEPT !.statusEffects =
        [k \in kept |-> [e.statusEffects[k] EXCEPT !.duration = @ - dt]]]

\* LivingEntity.onDeath
onDeath(e) == [e EXCEPT !.isDead = TRUE, !.isAlive = FALSE]

\* Entity.destroy
destroy(e) == [e EXCEPT !.isAlive = FALSE]

\* ------------------------------------------------------------------ Enemy
\* Enemy.updateSpeed
updateSpeed(e) ==
  LET base == EnemyStats[e.enemyType].speed
      slowed == IF hasStatusEffect(e, "slow")
                THEN (base * (100 - e.statusEffects["slow"].strength)) \div 100
                ELSE base
      frozen == IF hasStatusEffect(e, "freeze") THEN 0 ELSE slowed
      hasted == IF hasStatusEffect(e, "haste")
                THEN (frozen * (100 + e.statusEffects["haste"].strength)) \div 100
                ELSE frozen
  IN [e EXCEPT !.currentSpeed = hasted]

\* Enemy.followPath, for an enemy whose this.path is path: a tick that finds
\* the enemy within 5 pixels of its waypoint only advances the index, any
\* other tick only moves it
followPathOn(e, path, dt) ==
  IF e.currentWaypoint >= Len(path) THEN e
  ELSE LET target == path[e.currentWaypoint + 1]
       IN IF distance(e.position, target) < 500
          THEN [e EXCEPT !.currentWaypoint = @ + 1]
          ELSE [e EXCEPT !.position =
                  @ + Sign(target - @) * ((e.currentSpeed * dt) \div 1000)]

\* Enemy.followPath on the path of the game
followPath(e, dt) == followPathOn(e, Path, dt)

\* Enemy.hasReachedEnd, for an enemy whose this.path is path
hasReachedEndOn(e, path) == e.currentWaypoint >= Len(path)

\* Enemy.hasReachedEnd on the path of the game
hasReachedEnd(e) == hasReachedEndOn(e, Path)

\* Enemy.setPath(path)
setPathOn(e, path) ==
  [e EXCEPT !.currentWaypoint = 0,
            !.position = IF Len(path) > 0 THEN path[1] ELSE @]

\* Enemy.setPath with the path of the game
setPath(e) == setPathOn(e, Path)

\* EnemyManager.resetEnemy
resetEnemy(e) ==
  [e EXCEPT !.position = Path[1],
            !.health = e.maxHealth,
            !.isAlive = TRUE,
            !.isDead = FALSE,
            !.currentWaypoint = 0,
            !.statusEffects = NoEffects,
            !.currentSpeed = EnemyStats[e.enemyType].speed,
            !.invulnerable = FALSE]

\* ----------------------------------------------- the world the frame edits
\* A world is the part of the program state that the tower and enemy
\* passes read and write: w.ent (every enemy instance ever built, by
\* identity), w.enemies (EnemyManager.enemies), w.enemyPool, and the Game
\* counters w.gold, w.score, w.lives.

\* Enemy.onDeath: LivingEntity.onDeath, then Game.addGold and Game.addScore
EnemyOnDeath(w, id) ==
  [w EXCEPT !.ent[id] = onDeath(@),
            !.gold = @ + EnemyStats[w.ent[id].enemyType].goldReward,
            !.score = @ + EnemyStats[w.ent[id].enemyType].scoreReward]

\* Game.takeDamage (the later of the two definitions in the class, the one
\* in force)
GameTakeDamage(w, damage) == [w EXCEPT !.lives = Max(0, @ - damage)]

\* a faulty onReachEnd, to test the properties against: the enemy that
\* reaches the end is paid for like a kill as well
EnemyOnReachEndRewarded(w, id) ==
  GameTakeDamage(
    [w EXCEPT !.ent[id] = destroy(@),
              !.gold = @ + EnemyStats[w.ent[id].enemyType].goldReward,
              !.score = @ + EnemyStats[w.ent[id].enemyType].scoreReward],
    EnemyStats[w.ent[id].enemyType].damage)

\* Enemy.onReachEnd: Entity.destroy, then Game.takeDamage
EnemyOnReachEnd(w, id) ==
  GameTakeDamage([w EXCEPT !.ent[id] = destroy(@)],
                 EnemyStats[w.ent[id].enemyType].damage)

\* LivingEntity.update
LivingUpdate(w, id, dt) ==
  LET e == w.ent[id]
      e1 == IF e.invulnerable /\ e.invulnerabilityTime > 0
            THEN [e EXCEPT !.invulnerabilityTime = @ - dt,
                           !.invulnerable = ~(e.invulnerabilityTime - dt <= 0)]
            ELSE e
      e2 == updateStatusEffects(e1, dt)
      w2 == [w EXCEPT !.ent[id] = e2]
  IN IF e2.health <= 0 /\ ~e2.isDead THEN EnemyOnDeath(w2, id) ELSE w2

\* Enemy.update, for an enemy whose this.path is path
EnemyUpdateOn(w, id, path, dt) ==
  LET w1 == LivingUpdate(w, id, dt)
      e == w1.ent[id]
      moved == followPathOn(updateSpeed(e), path, dt)
      w2 == [w1 EXCEPT !.ent[id] = moved]
  IN IF ~e.isAlive \/ e.isDead THEN w1
     ELSE IF hasReachedEndOn(moved, path) THEN EnemyOnReachEnd(w2, id)
     ELSE w2

\* Enemy.update on the path of the game
EnemyUpdate(w, id, dt) == EnemyUpdateOn(w, id, Path, dt)

\* EnemyManager.spawnEnemy
SpawnEnemy(w, type) ==
  IF type \notin EnemyTypes THEN w
  ELSE LET fresh == Len(w.ent) + 1
           id == PoolGetObj(w.enemyPool[type], fresh)
           ent1 == IF id = fresh THEN Append(w.ent, NewEnemy(type)) ELSE w.ent
       IN [w EXCEPT !.enemyPool[type] = PoolGet(@, fresh),
                    !.ent = [ent1 EXCEPT ![id] = setPath(@)],
                    !.enemies = Append(@, id)]

\* pool.release(enemy) as the manager calls it, with resetEnemy as resetFn
ReleaseEnemy(w, id) ==
  LET type == w.ent[id].enemyType
  IN IF PoolReleases(w.enemyPool[type], id)
     THEN [w EXCEPT !.enemyPool[type] = PoolRelease(@, id),
                    !.ent[id] = resetEnemy(@)]
     ELSE w

\* EnemyManager.removeEnemy
RemoveEnemy(w, id) ==
  IF IndexOf(w.enemies, id) # 0
  THEN ReleaseEnemy([w EXCEPT !.enemies = Splice(@, IndexOf(w.enemies, id))], id)
  ELSE w

RECURSIVE ManagerUpdateFrom(_, _, _)
\* EnemyManager.update, the loop from index i down to the first enemy
ManagerUpdateFrom(w, i, dt) ==
  IF i = 0 THEN w
  ELSE LET id == w.enemies[i]
           w1 == EnemyUpdate(w, id, dt)
           w2 == IF ~w1.ent[id].isAlive \/ hasReachedEnd(w1.ent[id])
                 THEN RemoveEnemy(w1, id)
                 ELSE w1
       IN ManagerUpdateFrom(w2, i - 1, dt)

\* EnemyManager.update
ManagerUpdate(w, dt) == ManagerUpdateFrom(w, Len(w.enemies), dt)

RECURSIVE ReleaseAllFrom(_, _)
\* EnemyManager.clear, the loop from the i-th enemy on
ReleaseAllFrom(w, i) ==
  IF i > Len(w.enemies) THEN w
  ELSE ReleaseAllFrom(ReleaseEnemy(w, w.enemies[i]), i + 1)

\* a faulty clear, to test the properties against: the active list is
\* emptied and no enemy is released
ManagerClearNoRelease(w) == [w EXCEPT !.enemies = <<>>]

\* EnemyManager.clear
ManagerClear(w) == [ReleaseAllFrom(w, 1) EXCEPT !.enemies = <<>>]

\* EnemyManager.getAliveEnemyCount
getAliveEnemyCount(w) ==
  Cardinality({i \in 1..Len(w.enemies) : w.ent[w.enemies[i]].isAlive})

\* ------------------------------------------------------------ projectiles
\* Projectile constructor: velocity is the normalised direction times
\* speed * 0.001 (speed here already per millisecond).  piercingCount and
\* piercedEnemies are the two fields ArcherTower.attack adds to the arrows of
\* a tower with piercing shots (0 and empty: the arrow has no such fields)
NewProjectile(kind, x, targetX, speed, damage, targetEntity, radius) ==
  [kind |-> kind, position |-> x, target |-> targetX,
   velocity |-> Sign(targetX - x) * speed, damage |-> damage,
   targetEntity |-> targetEntity, explosionRadius |-> radius,
   piercingCount |-> 0, piercedEnemies |-> {}]

\* ArrowProjectile.onHit, the part that touches the world
ArrowOnHit(p, w) ==
  IF p.targetEntity # 0 /\ w.ent[p.targetEntity].isAlive
  THEN [w EXCEPT !.ent[p.targetEntity] = takeDamage(@, p.damage)]
  ELSE w

\* a faulty onHit, to test the properties against: the explosion also takes
\* the enemies it has killed out of the EnemyManager's list
CannonballOnHitSweeps(p, w) ==
  LET hit == [i \in DOMAIN w.ent |->
                IF /\ i \in Elems(w.enemies)
                   /\ w.ent[i].isAlive
                   /\ distance(p.position, w.ent[i].position)
                        <= p.explosionRadius
                THEN takeDamage(w.ent[i], p.damage)
                ELSE w.ent[i]]
      kept == {k \in 1..Len(w.enemies) : hit[w.enemies[k]].health > 0}
      Keep(k) == k \in kept
  IN [w EXCEPT !.ent = hit,
               !.enemies = SelectSeq([k \in 1..Len(w.enemies) |->
                                        IF Keep(k) THEN w.enemies[k] ELSE 0],
                                     LAMBDA id : id # 0)]

\* CannonballProjectile.onHit, the part that touches the world
CannonballOnHit(p, w) ==
  [w EXCEPT !.ent =
     [i \in DOMAIN w.ent |->
        IF /\ i \in Elems(w.enemies)
           /\ w.ent[i].isAlive
           /\ distance(p.position, w.ent[i].position) <= p.explosionRadius
        THEN takeDamage(w.ent[i], p.damage)
        ELSE w.ent[i]]]

\* onHit of the projectile's class
ProjectileOnHit(p, w) ==
  IF p.kind = "arrow" THEN ArrowOnHit(p, w) ELSE CannonballOnHit(p, w)

\* a faulty update, to test the properties against: onHit has its effect on
\* the enemies and leaves the projectile alive
ProjectileUpdateLingers(p, w, dt) ==
  LET moved == [p EXCEPT !.position = @ + p.velocity * dt]
      atTarget == distance(moved.position, moved.target) < 1000
      w1 == IF atTarget THEN ProjectileOnHit(moved, w) ELSE w
      outside == moved.position < -5000 \/ moved.position > 95000
      entityAlive == moved.targetEntity # 0
                       /\ w1.ent[moved.targetEntity].isAlive
      atEntity == entityAlive
                    /\ distance(moved.position,
                                w1.ent[moved.targetEntity].position) < 1000
      arrowHit == moved.kind = "arrow" /\ (atEntity \/ ~entityAlive)
      w2 == IF arrowHit THEN ArrowOnHit(moved, w1) ELSE w1
  IN [p |-> moved, w |-> w2, alive |-> ~outside]

\* Projectile.update followed, for an arrow, by the rest of
\* ArrowProjectile.update; alive tells whether the projectile survives
ProjectileUpdate(p, w, dt) ==
  LET moved == [p EXCEPT !.position = @ + p.velocity * dt]
      atTarget == distance(moved.position, moved.target) < 1000
      w1 == IF atTarget THEN ProjectileOnHit(moved, w) ELSE w
      outside == moved.position < -5000 \/ moved.position > 95000
      entityAlive == moved.targetEntity # 0
                       /\ w1.ent[moved.targetEntity].isAlive
      atEntity == entityAlive
                    /\ distance(moved.position,
                                w1.ent[moved.targetEntity].position) < 1000
      arrowHit == moved.kind = "arrow" /\ (atEntity \/ ~entityAlive)
      w2 == IF arrowHit THEN ArrowOnHit(moved, w1) ELSE w1
  IN [p |-> moved, w |-> w2, alive |-> ~(atTarget \/ outside \/ arrowHit)]

RECURSIVE ProjectilesUpdateFrom(_, _, _, _)
\* the projectile loop of ArcherTower.update and CannonTower.update, from
\* index i down to the first projectile
ProjectilesUpdateFrom(projectiles, w, i, dt) ==
  IF i = 0 THEN [projectiles |-> projectiles, w |-> w]
  ELSE LET r == ProjectileUpdate(projectiles[i], w, dt)
       IN ProjectilesUpdateFrom(
            IF r.alive THEN [projectiles EXCEPT ![i] = r.p]
            ELSE Splice(projectiles, i),
            r.w, i - 1, dt)

\* ------------------------------------------------------------------ Tower
\* 1000 / attackSpeed milliseconds, as the fraction num / den
CooldownOf(attackSpeed) == [num |-> 10000000, den |-> attackSpeed]

\* ArcherTower, CannonTower, MagicTower constructors.  elapsed is
\* performance.now() - lastAttackTime, cut off at ElapsedCap; lastAttackTime
\* starts at 0 and the page is older than every cooldown when a tower is
\* built.  sinceFire, fireGap and fireSpeed record the tower's attacks: time
\* since the latest one, time between the latest two, and the attack speed
\* at the latest one (-1: no such attack yet).
ElapsedCap == 2500

NewTower(type, x) ==
  [towerType |-> type, position |-> x, level |-> 1,
   damage |-> TowerStats[type].damage,
   range |-> TowerStats[type].range,
   attackSpeed |-> TowerStats[type].attackSpeed,
   upgradeCost |-> TowerStats[type].upgradeCost,
   sellValue |-> TowerStats[type].sellValue,
   explosionRadius |-> TowerStats[type].explosionRadius,
   chainCount |-> TowerStats[type].chainCount,
   chainRange |-> TowerStats[type].chainRange,
   slowAmount |-> TowerStats[type].slowAmount,
   piercingShots |-> 0,
   target |-> 0,
   elapsed |-> ElapsedCap,
   attackCooldown |-> IF type = "magic" THEN [num |-> 0, den |-> 1]
                      ELSE CooldownOf(TowerStats[type].attackSpeed),
   projectiles |-> <<>>,
   slowedEnemies |-> {},
   sinceFire |-> -1, fireGap |-> -1, fireSpeed |-> 0]

\* the clock moves on by dt between two frames
AgeTower(t, dt) ==
  [t EXCEPT !.elapsed = Min(@ + dt, ElapsedCap),
            !.sinceFire = IF @ < 0 THEN @ ELSE Min(@ + dt, ElapsedCap)]

\* the record of an attack made now
NoteFire(t) ==
  [t EXCEPT !.fireGap = t.sinceFire, !.fireSpeed = t.attackSpeed,
            !.sinceFire = 0]

\* Entity.distanceTo from a tower to an enemy
TowerDistance(t, w, id) == distance(t.position, w.ent[id].position)

\* the target validity check at the head of Tower.update
ValidateTarget(t, w) ==
  IF t.target # 0 /\ (~w.ent[t.target].isAlive
                        \/ TowerDistance(t, w, t.target) > 2 * t.range)
  THEN [t EXCEPT !.target = 0]
  ELSE t

\* findTarget with ">" turned into ">=" in the comparison of distances: of
\* the nearest enemies, the last in the list wins
findTargetLastWins(t, w) ==
  IF t.target # 0 /\ w.ent[t.target].isAlive
       /\ TowerDistance(t, w, t.target) <= 2 * t.range
  THEN t.target
  ELSE LET cands == {i \in 1..Len(w.enemies) :
                       /\ w.ent[w.enemies[i]].isAlive
                       /\ TowerDistance(t, w, w.enemies[i]) <= t.range}
           d(i) == TowerDistance(t, w, w.enemies[i])
       IN IF cands = {} THEN 0
          ELSE w.enemies[CHOOSE i \in cands :
                 \A j \in cands : d(i) < d(j) \/ (d(i) = d(j) /\ i >= j)]

\* Tower.findTarget: the enemy it returns and stores in target
findTarget(t, w) ==
  IF t.target # 0 /\ w.ent[t.target].isAlive
       /\ TowerDistance(t, w, t.target) <= 2 * t.range
  THEN t.target
  ELSE LET cands == {i \in 1..Len(w.enemies) :
                       /\ w.ent[w.enemies[i]].isAlive
                       /\ TowerDistance(t, w, w.enemies[i]) <= t.range}
           d(i) == TowerDistance(t, w, w.enemies[i])
       IN IF cands = {} THEN 0
          ELSE w.enemies[CHOOSE i \in cands :
                 \A j \in cands : d(i) < d(j) \/ (d(i) = d(j) /\ i <= j)]

\* Tower.canAttackTarget
canAttackTarget(t, w) ==
  t.target # 0 /\ w.ent[t.target].isAlive
    /\ 2 * TowerDistance(t, w, t.target) <= 3 * t.range

\* the cooldown gate of Tower.update:
\* currentTime - lastAttackTime >= attackCooldown
CooldownPassed(t) == t.elapsed * t.attackCooldown.den >= t.attackCooldown.num

\* Tower constructor: this.maxProjectiles
maxProjectiles == 8

\* a faulty push, to test the properties against: the projectile is pushed
\* and none is shifted out
PushProjectileUncapped(projectiles, p) == Append(projectiles, p)

\* projectiles.shift() when the cap of maxProjectiles is reached, then
\* projectiles.push(p)
PushProjectile(projectiles, p) ==
  Append(IF Len(projectiles) >= maxProjectiles THEN Tail(projectiles)
         ELSE projectiles, p)

\* ArcherTower.attack and CannonTower.attack
attack(t, w) ==
  LET targetX == w.ent[t.target].position
      p == IF t.towerType = "archer"
           THEN [NewProjectile("arrow", t.position, targetX, 40, t.damage,
                               t.target, 0)
                   EXCEPT !.piercingCount = t.piercingShots]
           ELSE NewProjectile("cannonball", t.position, targetX, 25,
                              t.damage, 0, t.explosionRadius)
  IN [t EXCEPT !.projectiles = PushProjectile(@, p)]

\* Tower.update
TowerUpdate(t, w) ==
  LET t1 == ValidateTarget(t, w)
      t2 == [t1 EXCEPT !.target = findTarget(t1, w)]
  IN IF canAttackTarget(t2, w) /\ CooldownPassed(t2)
     THEN [NoteFire(attack(t2, w)) EXCEPT !.elapsed = 0]
     ELSE t2

\* ArcherTower.update and CannonTower.update
ShooterUpdate(t, w, dt) ==
  LET t1 == TowerUpdate(t, w)
      r == ProjectilesUpdateFrom(t1.projectiles, w, Len(t1.projectiles), dt)
  IN [t |-> [t1 EXCEPT !.projectiles = r.projectiles], w |-> r.w]

\* ------------------------------------------------------------- MagicTower
\* MagicTower.attackEnemy
attackEnemy(t, w, id) ==
  IF id = 0 \/ ~w.ent[id].isAlive THEN w
  ELSE [w EXCEPT !.ent[id] = takeDamage(@, t.damage)]

\* MagicTower.findNextChainTarget
findNextChainTarget(t, w, current, hitEnemies) ==
  LET d(i) == distance(w.ent[current].position, w.ent[w.enemies[i]].position)
      cands == {i \in 1..Len(w.enemies) :
                  /\ w.ent[w.enemies[i]].isAlive
                  /\ w.enemies[i] \notin hitEnemies
                  /\ d(i) <= t.chainRange}
  IN IF cands = {} THEN 0
     ELSE w.enemies[CHOOSE i \in cands :
            \A j \in cands : d(i) < d(j) \/ (d(i) = d(j) /\ i <= j)]

RECURSIVE ChainFrom(_, _, _, _, _)
\* the while loop of MagicTower.performChainLightning
ChainFrom(t, w, current, hitEnemies, chainCount) ==
  LET next == findNextChainTarget(t, w, current, hitEnemies)
  IN IF chainCount < t.chainCount /\ next # 0
     THEN ChainFrom(t, attackEnemy(t, w, next), next,
                    hitEnemies \cup {next}, chainCount + 1)
     ELSE w

\* MagicTower.performChainLightning (MagicTower.attack only draws)
performChainLightning(t, w, firstTarget) ==
  ChainFrom(t, attackEnemy(t, w, firstTarget), firstTarget, {firstTarget}, 1)

\* the slow field of MagicTower.update: the active enemies in range
InSlowField(t, w) ==
  {id \in Elems(w.enemies) :
     w.ent[id].isAlive /\ TowerDistance(t, w, id) <= t.range}

\* the slow field of MagicTower.update: slow applied to the enemies in
\* range, removed from those that were in range at the previous update
SlowField(t, w) ==
  LET inRange == InSlowField(t, w)
  IN
  [w EXCEPT !.ent =
     [i \in DOMAIN w.ent |->
        IF i \in inRange
        THEN applyStatusEffect(w.ent[i], "slow", 10000, t.slowAmount)
        ELSE IF i \in t.slowedEnemies
        THEN removeStatusEffect(w.ent[i], "slow")
        ELSE w.ent[i]]]

\* MagicTower.update
MagicUpdate(t, w, dt) ==
  LET t1 == [t EXCEPT !.attackCooldown.num = @ - dt * t.attackCooldown.den,
                      !.slowedEnemies = InSlowField(t, w)]
      w1 == SlowField(t, w)
      found == findTarget(t1, w1)
      t2 == [t1 EXCEPT !.target = found]
  IN IF t1.attackCooldown.num <= 0
     THEN IF found # 0
          THEN [t |-> NoteFire([t2 EXCEPT !.attackCooldown =
                                            CooldownOf(t2.attackSpeed)]),
                w |-> performChainLightning(t2, w1, found)]
          ELSE [t |-> t2, w |-> w1]
     ELSE [t |-> t1, w |-> w1]

\* update of the tower's class
UpdateTower(t, w, dt) ==
  IF t.towerType = "magic" THEN MagicUpdate(t, w, dt)
  ELSE ShooterUpdate(t, w, dt)

RECURSIVE TowersUpdateFrom(_, _, _, _)
\* TowerManager.update, from the i-th tower on
TowersUpdateFrom(ts, w, i, dt) ==
  IF i > Len(ts) THEN [towers |-> ts, w |-> w]
  ELSE LET r == UpdateTower(ts[i], w, dt)
       IN TowersUpdateFrom([ts EXCEPT ![i] = r.t], r.w, i + 1, dt)

\* TowerManager.update
TowersUpdate(ts, w, dt) == TowersUpdateFrom(ts, w, 1, dt)

\* upgradeSpecialAbilities and onUpgrade of the tower's class, at the new
\* level
upgradeSpecialAbilities(t) ==
  IF t.towerType = "archer"
  THEN [t EXCEPT !.piercingShots = IF t.level = 2 THEN 2 ELSE 3]
  ELSE IF t.towerType = "cannon"
  THEN [t EXCEPT !.explosionRadius = @ + 500]
  ELSE IF t.level = 2
  THEN [t EXCEPT !.chainCount = 4, !.chainRange = 8000, !.slowAmount = 48,
                 !.range = 100 * Round((@ \div 100) * 12, 10)]
  ELSE [t EXCEPT !.chainCount = 5, !.chainRange = 10000, !.slowAmount = 54,
                 !.range = 100 * Round((@ \div 100) * 13, 10),
                 !.attackSpeed = 15000]

\* upgrade without the check of the level against maxLevel
upgradeUnchecked(t) ==
  LET m == IF t.level + 1 = 2 THEN 13 ELSE 15
      speed == (t.attackSpeed * (100 + 8 * (m - 10))) \div 100
  IN upgradeSpecialAbilities(
       [t EXCEPT !.level = @ + 1,
                 !.damage = Round(@ * m, 10),
                 !.range = 100 * Round((@ \div 100) * (m + 10), 20),
                 !.attackSpeed = speed,
                 !.attackCooldown = CooldownOf(speed),
                 !.upgradeCost = Round(@ * 16, 10),
                 !.sellValue = Round(@ * 14, 10)])

\* a faulty upgrade, to test the properties against: the sell value is
\* multiplied by 4 instead of 1.4
upgradeSellsDear(t) ==
  IF t.level >= 3 THEN t
  ELSE [upgradeUnchecked(t) EXCEPT !.sellValue = t.sellValue * 4]

\* Tower.upgrade; the tower is unchanged when upgrade returns false
upgrade(t) ==
  IF t.level >= 3 THEN t
  ELSE LET m == IF t.level + 1 = 2 THEN 13 ELSE 15
           speed == (t.attackSpeed * (100 + 8 * (m - 10))) \div 100
       IN upgradeSpecialAbilities(
            [t EXCEPT !.level = @ + 1,
                      !.damage = Round(@ * m, 10),
                      !.range = 100 * Round((@ \div 100) * (m + 10), 20),
                      !.attackSpeed = speed,
                      !.attackCooldown = CooldownOf(speed),
                      !.upgradeCost = Round(@ * 16, 10),
                      !.sellValue = Round(@ * 14, 10)])

\* Tower.getUpgradeCost
getUpgradeCost(t) == IF t.level >= 3 THEN 0 ELSE t.upgradeCost

\* ------------------------------------------------------------------- Game
\* Game.generateWaves: the enemy groups of wave i
WaveGroups(i) ==
  LET g(type, count, interval) ==
        [type |-> type, count |-> count, interval |-> interval]
  IN IF i = 1 THEN <<g("scout", 5, 1000)>>
     ELSE IF i = 2 THEN <<g("scout", 7, 900)>>
     ELSE IF i = 3 THEN <<g("scout", 10, 800), g("knight", 1, 3000)>>
     ELSE IF i <= 6
     THEN <<g("scout", 8 + Floor(3 * i, 2), Max(600, 800 - i * 20)),
            g("knight", i - 2, Max(2000, 3000 - i * 100))>>
          \o (IF i = 6 THEN <<g("dragon", 1, 4000)>> ELSE <<>>)
     ELSE IF i <= 12
     THEN <<g("scout", 6 + Floor(12 * i, 10), Max(500, 700 - i * 15)),
            g("knight", 2 + Floor(8 * (i - 6), 10), Max(1500, 2500 - i * 80)),
            g("dragon", 1 + Floor(3 * (i - 6), 10), Max(3000, 4000 - i * 100))>>
     ELSE <<g("scout", 10 + i * 2, 400),
            g("knight", 3 + Floor(7 * i, 10), 1200),
            g("dragon", 2 + Floor(i - 12, 2), 2500)>>

\* Game.generateWaves: basePreparationTime of wave i
PreparationTime(i) == Max(5000, 15000 - i * 300)

RECURSIVE SumCounts(_, _)
\* enemies.reduce((sum, enemy) => sum + enemy.count, 0) from group k on
SumCounts(groups, k) ==
  IF k > Len(groups) THEN 0 ELSE groups[k].count + SumCounts(groups, k + 1)

\* Wave constructor, new Wave(n, groups, preparationTime): the count of
\* each group, which the game changes, the type and the interval of each
\* group, and totalEnemies
WaveOf(groups) ==
  [count |-> [k \in 1..Len(groups) |-> groups[k].count],
   groups |-> [k \in 1..Len(groups) |->
                 [type |-> groups[k].type, interval |-> groups[k].interval]],
   enemiesSpawned |-> 0,
   isCompleted |-> FALSE,
   totalEnemies |-> SumCounts(groups, 1)]

\* Game.generateWaves: wave i as constructed
NewWave(i) == WaveOf(WaveGroups(i))

\* Game.selectTowerType and Game.placeTower: the cost switch
TowerCost(type) ==
  IF type = "archer" THEN 10
  ELSE IF type = "cannon" THEN 25
  ELSE IF type = "magic" THEN 20
  ELSE 0

\* Game.addMapDecorations: the cells with a tree or a rock
Decorated ==
  {<<1, 0>>, <<3, 1>>, <<5, 0>>, <<0, 4>>, <<2, 5>>, <<4, 6>>, <<8, 0>>,
   <<10, 1>>, <<12, 0>>, <<6, 8>>, <<8, 9>>, <<10, 8>>, <<13, 3>>, <<14, 5>>,
   <<13, 7>>, <<0, 1>>, <<2, 0>>, <<4, 2>>, <<7, 8>>, <<9, 7>>, <<11, 9>>,
   <<14, 1>>, <<12, 3>>, <<14, 8>>}

\* Game.markPathOnMap: the cells it marks along the whole path of
\* Game.setupPath
PathCells ==
  {<<4, 1>>, <<5, 1>>, <<3, 2>>, <<6, 2>>, <<13, 2>>, <<14, 2>>, <<0, 3>>,
   <<1, 3>>, <<2, 3>>, <<7, 3>>, <<12, 3>>, <<8, 4>>, <<11, 4>>, <<9, 5>>,
   <<10, 5>>}

\* Game.setupPath: the waypoints of the whole path that lie on the row
\* y = 210 (every other waypoint is 60 pixels or more from the row)
RowWaypoints == {-3000, 3000, 9000, 15000, 45000, 75000}

\* TowerManager.canPlaceTower at (gridX, 210), given the towers
canPlaceTower(ts, gridX) ==
  /\ ~(gridX < 0 \/ gridX >= 15 * 4000)
  /\ LET cell == <<Floor(gridX, 4000), Floor(21000, 4000)>>
     IN cell[1] < 15 => cell \notin Decorated \cup PathCells
  /\ \A i \in 1..Len(ts) : ~(distance(ts[i].position, gridX) < 4000)
  /\ \A px \in RowWaypoints : ~(distance(px, gridX) < 3500)

\* Game.placeTower: the click snapped to the centre of its 60 pixel cell
GridCentre(x) == Floor(x, 6000) * 6000 + 3000

\* TowerManager.selectTower: the first tower whose 25 pixel box holds the
\* click, 0 when none
TowerAt(ts, x) ==
  LET hit == {i \in 1..Len(ts) : 2 * Abs(x - ts[i].position) <= 2500}
  IN IF hit = {} THEN 0 ELSE CHOOSE i \in hit : \A j \in hit : i <= j

VARIABLES
  state, isPaused, previousState, deltaTime, currentWave, currentWaveObj,
  waveTimer, spawnTimer, currentEnemyGroup, waves, selectedTowerType,
  isPlacingTower, highScore,
  gold, score, lives, ent, enemies, enemyPool,
  towers, selectedTower,
  pc, frames, ops,
  testPool, resetCalls, lastCall, sites, probe

gameVars ==
  <<state, isPaused, previousState, deltaTime, currentWave, currentWaveObj,
    waveTimer, spawnTimer, currentEnemyGroup, waves, selectedTowerType,
    isPlacingTower, highScore>>

worldVars == <<gold, score, lives, ent, enemies, enemyPool>>

towerVars == <<towers, selectedTower>>

ctrlVars == <<pc, frames, ops>>

harnessVars == <<testPool, resetCalls, lastCall, sites, probe>>

vars == <<gameVars, worldVars, towerVars, ctrlVars, harnessVars>>

\* the world in the current state
World ==
  [ent |-> ent, enemies |-> enemies, enemyPool |-> enemyPool,
   gold |-> gold, score |-> score, lives |-> lives]

\* the world in the next state
SetWorld(w) ==
  /\ ent' = w.ent
  /\ enemies' = w.enemies
  /\ enemyPool' = w.enemyPool
  /\ gold' = w.gold
  /\ score' = w.score
  /\ lives' = w.lives

\* EnemyManager.initializePools: the type of the i-th instance built
InitialType(i) ==
  IF i <= PoolInitialSize.scout THEN "scout"
  ELSE IF i <= PoolInitialSize.scout + PoolInitialSize.knight THEN "knight"
  ELSE "dragon"

\* EnemyManager.initializePools: the instances built by the three pools
InitialEnt ==
  [i \in 1..(PoolInitialSize.scout + PoolInitialSize.knight
               + PoolInitialSize.dragon) |-> NewEnemy(InitialType(i))]

\* EnemyManager.initializePools: the three pools
InitialPools ==
  [scout |-> NewPool([k \in 1..PoolInitialSize.scout |-> k]),
   knight |-> NewPool([k \in 1..PoolInitialSize.knight |->
                         PoolInitialSize.scout + k]),
   dragon |-> NewPool([k \in 1..PoolInitialSize.dragon |->
                         PoolInitialSize.scout + PoolInitialSize.knight + k])]

\* no frame is in progress
Idle == [phase |-> "idle", gameplay |-> FALSE]

\* Game constructor and Game.init, EnemyManager and TowerManager
\* constructors
InitGame ==
  /\ state = "menu"
  /\ isPaused = FALSE
  /\ previousState = "none"
  /\ deltaTime = 0
  /\ currentWave = 0
  /\ currentWaveObj = 0
  /\ waveTimer = 0
  /\ spawnTimer = 0
  /\ currentEnemyGroup = 0
  /\ waves = [i \in 1..20 |-> NewWave(i)]
  /\ selectedTowerType = "none"
  /\ isPlacingTower = FALSE
  /\ highScore = 0
  /\ gold = 50
  /\ lives = 20
  /\ score = 0
  /\ ent = InitialEnt
  /\ enemies = <<>>
  /\ enemyPool = InitialPools
  /\ towers = <<>>
  /\ selectedTower = 0
  /\ pc = Idle
  /\ frames = 0
  /\ ops = 0

\* a player operation: between two frames, within the bound max, while at
\* most window frames of gameplay have run
OperationWithin(max, window) ==
  /\ pc = Idle
  /\ ops < max
  /\ frames <= window
  /\ ops' = ops + 1
  /\ UNCHANGED <<pc, frames, harnessVars>>

Operation(max) == OperationWithin(max, OpWindow)

\* Game.startGame (start and restart buttons)
StartGameWithin(max, window) ==
  /\ OperationWithin(max, window)
  /\ state' = "wave_preparing"
  /\ currentWave' = 1
  /\ currentWaveObj' = 1
  /\ waveTimer' = PreparationTime(1)
  /\ SetWorld([ManagerClear(World) EXCEPT !.gold = 50, !.lives = 20,
                                          !.score = 0])
  /\ towers' = <<>>
  /\ selectedTower' = 0
  /\ UNCHANGED <<isPaused, previousState, deltaTime, spawnTimer,
                 currentEnemyGroup, waves, selectedTowerType, isPlacingTower,
                 highScore>>

StartGame(max) == StartGameWithin(max, OpWindow)

\* a faulty togglePause, to test the properties against: the game is paused
\* from any state but PAUSED
TogglePauseFromAnyState(max, window) ==
  /\ OperationWithin(max, window)
  /\ \/ /\ state # "paused"
        /\ previousState' = state
        /\ state' = "paused"
        /\ isPaused' = TRUE
     \/ /\ state = "paused"
        /\ state' = IF previousState # "none" THEN previousState ELSE "playing"
        /\ isPaused' = FALSE
        /\ UNCHANGED previousState
  /\ UNCHANGED <<deltaTime, currentWave, currentWaveObj, waveTimer,
                 spawnTimer, currentEnemyGroup, waves, selectedTowerType,
                 isPlacingTower, highScore, worldVars, towerVars>>

\* Game.togglePause (Space, pause button)
TogglePauseWithin(max, window) ==
  /\ OperationWithin(max, window)
  /\ \/ /\ state \in {"playing", "wave_preparing"}
        /\ previousState' = state
        /\ state' = "paused"
        /\ isPaused' = TRUE
     \/ /\ state = "paused"
        /\ state' = IF previousState # "none" THEN previousState ELSE "playing"
        /\ isPaused' = FALSE
        /\ UNCHANGED previousState
  /\ UNCHANGED <<deltaTime, currentWave, currentWaveObj, waveTimer,
                 spawnTimer, currentEnemyGroup, waves, selectedTowerType,
                 isPlacingTower, highScore, worldVars, towerVars>>

TogglePause(max) == TogglePauseWithin(max, OpWindow)

\* Game.startNextWave: the wave records after it
startNextWave(ws, cw) == [ws EXCEPT ![cw].enemiesSpawned = 0]

\* Game.startNextWave (next wave button)
StartNextWaveWithin(max, window) ==
  /\ OperationWithin(max, window)
  /\ state = "wave_preparing"
  /\ state' = "playing"
  /\ spawnTimer' = 0
  /\ currentEnemyGroup' = 0
  /\ waves' = startNextWave(waves, currentWaveObj)
  /\ UNCHANGED <<isPaused, previousState, deltaTime, currentWave,
                 currentWaveObj, waveTimer, selectedTowerType, isPlacingTower,
                 highScore, worldVars, towerVars>>

StartNextWave(max) == StartNextWaveWithin(max, OpWindow)

\* Game.selectTowerType (Digit1..3, tower cards)
SelectTowerType(max, type) ==
  /\ Operation(max)
  /\ gold >= TowerCost(type)
  /\ selectedTowerType' = type
  /\ isPlacingTower' = TRUE
  /\ UNCHANGED <<state, isPaused, previousState, deltaTime, currentWave,
                 currentWaveObj, waveTimer, spawnTimer, currentEnemyGroup,
                 waves, highScore, worldVars, towerVars>>

\* a faulty placeTower, to test the properties against: the tower is sold
\* whatever the gold at hand
placeTowerUnpaid(g, ts, type, x) ==
  IF type # "none" /\ canPlaceTower(ts, GridCentre(x))
  THEN [gold |-> g - TowerCost(type),
        towers |-> Append(ts, NewTower(type, GridCentre(x))),
        placed |-> TRUE]
  ELSE [gold |-> g, towers |-> ts, placed |-> FALSE]

\* Game.placeTower: gold and towers after a click at x with the tower type
\* selected
placeTower(g, ts, type, x) ==
  IF type # "none" /\ canPlaceTower(ts, GridCentre(x)) /\ g >= TowerCost(type)
  THEN [gold |-> g - TowerCost(type),
        towers |-> Append(ts, NewTower(type, GridCentre(x))),
        placed |-> TRUE]
  ELSE [gold |-> g, towers |-> ts, placed |-> FALSE]

\* Game.onMouseClick in placement mode: Game.placeTower
ClickPlace(max, x) ==
  /\ Operation(max)
  /\ state \in {"playing", "wave_preparing"}
  /\ isPlacingTower /\ selectedTowerType # "none"
  /\ LET r == placeTower(gold, towers, selectedTowerType, x)
     IN /\ gold' = r.gold
        /\ towers' = r.towers
        /\ isPlacingTower' = IF r.placed THEN FALSE ELSE isPlacingTower
        /\ selectedTowerType' = IF r.placed THEN "none" ELSE selectedTowerType
  /\ UNCHANGED <<state, isPaused, previousState, deltaTime, currentWave,
                 currentWaveObj, waveTimer, spawnTimer, currentEnemyGroup,
                 waves, highScore, score, lives, ent, enemies, enemyPool,
                 selectedTower>>

\* Game.onMouseClick outside placement mode: TowerManager.selectTower
ClickSelect(max, x) ==
  /\ Operation(max)
  /\ state \in {"playing", "wave_preparing"}
  /\ ~(isPlacingTower /\ selectedTowerType # "none")
  /\ selectedTower' = TowerAt(towers, x)
  /\ UNCHANGED <<gameVars, worldVars, towers>>

\* Game.onRightClick
RightClick(max) ==
  /\ Operation(max)
  /\ isPlacingTower \/ selectedTowerType # "none"
  /\ isPlacingTower' = FALSE
  /\ selectedTowerType' = "none"
  /\ UNCHANGED <<state, isPaused, previousState, deltaTime, currentWave,
                 currentWaveObj, waveTimer, spawnTimer, currentEnemyGroup,
                 waves, highScore, worldVars, towerVars>>

\* Game.upgradeTower: gold and the selected tower after it
upgradeTower(g, t) ==
  IF getUpgradeCost(t) > 0 /\ g >= getUpgradeCost(t)
  THEN [gold |-> g - getUpgradeCost(t), tower |-> upgrade(t)]
  ELSE [gold |-> g, tower |-> t]

\* Game.upgradeTower (KeyU, upgrade button)
UpgradeTower(max) ==
  /\ Operation(max)
  /\ selectedTower # 0
  /\ LET r == upgradeTower(gold, towers[selectedTower])
     IN /\ gold' = r.gold
        /\ towers' = [towers EXCEPT ![selectedTower] = r.tower]
  /\ UNCHANGED <<gameVars, score, lives, ent, enemies, enemyPool,
                 selectedTower>>

\* Game.sellTower (KeyS, sell button): TowerManager.sellSelectedTower
SellTower(max) ==
  /\ Operation(max)
  /\ selectedTower # 0
  /\ gold' = gold + towers[selectedTower].sellValue
  /\ towers' = Splice(towers, selectedTower)
  /\ selectedTower' = 0
  /\ UNCHANGED <<gameVars, score, lives, ent, enemies, enemyPool>>

\* ------------------------------------------------------------- the frame
\* Game.update runs as one frame; the model shows it in four steps, the
\* head of the frame (timers and spawning), the tower pass, the enemy pass
\* and the end of the frame (wave completion and game end), and lets
\* nothing else happen in between.

\* Game.updateEnemySpawning: spawnTimer, currentEnemyGroup, the wave
\* records and the world after it
updateEnemySpawning(timer, group, ws, cw, w, dt) ==
  IF cw = 0 \/ ws[cw].isCompleted
  THEN [spawnTimer |-> timer, currentEnemyGroup |-> group, waves |-> ws,
        w |-> w]
  ELSE LET due == /\ group < Len(ws[cw].groups)
                  /\ timer + dt >= ws[cw].groups[group + 1].interval
           ws1 == IF due
                  THEN [ws EXCEPT ![cw].count[group + 1] = @ - 1,
                                  ![cw].enemiesSpawned = @ + 1]
                  ELSE ws
       IN [spawnTimer |-> IF due THEN 0 ELSE timer + dt,
           currentEnemyGroup |->
             IF due /\ ws1[cw].count[group + 1] <= 0 THEN group + 1
             ELSE group,
           waves |-> IF ws1[cw].enemiesSpawned >= ws1[cw].totalEnemies
                     THEN [ws1 EXCEPT ![cw].isCompleted = TRUE]
                     ELSE ws1,
           w |-> IF due THEN SpawnEnemy(w, ws[cw].groups[group + 1].type)
                 ELSE w]

\* Game.saveHighScore: the stored high score after it
saveHighScore(stored, s) == IF s > stored THEN s ELSE stored

\* a faulty checkGameEnd, to test the properties against: a game whose state
\* is already VICTORY is not looked at again
checkGameEndSparesVictory(g) ==
  IF g.lives <= 0 /\ g.state # "victory"
  THEN IF g.state = "game_over" THEN g
       ELSE [g EXCEPT !.state = "game_over",
                      !.highScore = IF g.score > @ THEN g.score ELSE @]
  ELSE g

\* Game.checkGameEnd: state, score and high score after it
checkGameEnd(g) ==
  IF g.lives <= 0
  THEN IF g.state = "game_over" THEN g
       ELSE [g EXCEPT !.state = "game_over",
                      !.highScore = saveHighScore(@, g.score)]
  ELSE IF g.currentWave > 20 /\ g.alive = 0 /\ g.state = "playing"
  THEN [g EXCEPT !.state = "victory",
                 !.score = @ + g.lives * 100 + g.gold * 10,
                 !.highScore = saveHighScore(@, g.score + g.lives * 100
                                                  + g.gold * 10)]
  ELSE g

\* what Game.checkGameEnd reads, in the current state
EndView ==
  [state |-> state, lives |-> lives, gold |-> gold, score |-> score,
   highScore |-> highScore, currentWave |-> currentWave,
   alive |-> getAliveEnemyCount(World)]

\* Game.update, head of the frame: deltaTime, then nothing more when
\* paused; updateWavePreparation or updateGameplay up to the tower pass;
\* in any other state checkGameEnd alone.  At most maxPrepFrames frames
\* of a wave's preparation and maxFrames frames of gameplay are run
Frame(dt, maxFrames, maxPrepFrames) ==
  /\ pc = Idle
  /\ deltaTime' = dt
  /\ towers' = [i \in 1..Len(towers) |-> AgeTower(towers[i], dt)]
  /\ UNCHANGED <<isPaused, previousState, currentWave, currentWaveObj,
                 selectedTowerType, isPlacingTower, selectedTower, ops,
                 harnessVars>>
  /\ \/ /\ isPaused
        /\ UNCHANGED <<state, waveTimer, spawnTimer, currentEnemyGroup, waves,
                       highScore, worldVars, pc, frames>>
     \/ /\ ~isPaused /\ state = "wave_preparing"
        /\ PreparationTime(currentWave) - waveTimer < maxPrepFrames * dt
        /\ waveTimer' = waveTimer - dt
        /\ IF waveTimer - dt <= 0
           THEN /\ state' = "playing"
                /\ spawnTimer' = 0
                /\ currentEnemyGroup' = 0
                /\ waves' = startNextWave(waves, currentWaveObj)
           ELSE UNCHANGED <<state, spawnTimer, currentEnemyGroup, waves>>
        /\ pc' = [phase |-> "towers", gameplay |-> FALSE]
        /\ UNCHANGED <<highScore, worldVars, frames>>
     \/ /\ ~isPaused /\ state = "playing"
        /\ frames < maxFrames
        /\ frames' = frames + 1
        /\ LET r == updateEnemySpawning(spawnTimer, currentEnemyGroup, waves,
                                        currentWaveObj, World, dt)
           IN /\ spawnTimer' = r.spawnTimer
              /\ currentEnemyGroup' = r.currentEnemyGroup
              /\ waves' = r.waves
              /\ SetWorld(r.w)
        /\ pc' = [phase |-> "towers", gameplay |-> TRUE]
        /\ UNCHANGED <<state, waveTimer, highScore>>
     \/ /\ ~isPaused /\ state \notin {"wave_preparing", "playing"}
        /\ state' = checkGameEnd(EndView).state
        /\ score' = checkGameEnd(EndView).score
        /\ highScore' = checkGameEnd(EndView).highScore
        /\ UNCHANGED <<waveTimer, spawnTimer, currentEnemyGroup, waves, gold,
                       lives, ent, enemies, enemyPool, pc, frames>>

BeginFrame(dt) == Frame(dt, MaxFrames, MaxPrepFrames)

\* the tower pass: towerManager.update(deltaTime, enemyManager.enemies)
TowerPass ==
  /\ pc.phase = "towers"
  /\ LET r == TowersUpdate(towers, World, deltaTime)
     IN /\ towers' = r.towers
        /\ SetWorld(r.w)
  /\ pc' = [pc EXCEPT !.phase = "enemies"]
  /\ UNCHANGED <<gameVars, selectedTower, frames, ops, harnessVars>>

\* the enemy pass: enemyManager.update(deltaTime)
EnemyPass ==
  /\ pc.phase = "enemies"
  /\ LET w == ManagerUpdate(World, deltaTime)
     IN SetWorld(w)
  /\ pc' = [pc EXCEPT !.phase = "end"]
  /\ UNCHANGED <<gameVars, towerVars, frames, ops, harnessVars>>

\* Game.checkWaveCompletion: whether the current wave is over
WaveIsOver ==
  /\ currentWaveObj # 0
  /\ waves[currentWaveObj].isCompleted
  /\ getAliveEnemyCount(World) = 0

\* end of the frame: checkWaveCompletion when the frame ran
\* updateGameplay, then checkGameEnd
EndFrame ==
  /\ pc.phase = "end"
  /\ pc' = Idle
  /\ LET over == pc.gameplay /\ WaveIsOver
         won == over /\ currentWave + 1 > 20
         g1 == IF over
               THEN [EndView EXCEPT
                       !.gold = @ + 10 + currentWave * 2,
                       !.score = @ + 50 + currentWave * 10,
                       !.currentWave = @ + 1,
                       !.state = IF won THEN "victory" ELSE "wave_preparing"]
               ELSE EndView
         g2 == checkGameEnd(g1)
     IN /\ state' = g2.state
        /\ gold' = g2.gold
        /\ score' = g2.score
        /\ highScore' = g2.highScore
        /\ currentWave' = g2.currentWave
        /\ IF over /\ ~won
           THEN /\ currentWaveObj' = currentWave + 1
                /\ waveTimer' = PreparationTime(currentWave + 1)
                /\ currentEnemyGroup' = 0
           ELSE UNCHANGED <<currentWaveObj, waveTimer, currentEnemyGroup>>
  /\ UNCHANGED <<isPaused, previousState, deltaTime, spawnTimer, waves,
                 selectedTowerType, isPlacingTower, lives, ent, enemies,
                 enemyPool, towerVars, frames, ops, harnessVars>>

\* --------------------------------------------------------- specifications
\* objects of the pool under test
TestPoolSize == 2

\* lastCall records the latest direct call: the method, the object handed
\* to it (0 when none) and whether the method found the object in the state
\* it looks for (active, for ObjectPool.release; dead, for a call on an
\* enemy; at the end of the path and taking lives, for an update; at the
\* top level, where upgrade returns false, for an upgrade)
NoCall == [op |-> "none", obj |-> 0, found |-> FALSE]

\* the path of two points (0,0), (100,0) an enemy outside the game is given
ScenarioPath == <<0, 10000>>

\* new ObjectPool(createFn, resetFn, TestPoolSize): a pool of its own, whose
\* objects are 1, 2, ... in the order createFn builds them and whose resetFn
\* counts its calls in resetCalls.  sites is TowerManager.towers for the
\* placements made anywhere on the map: the kind, and the point in pixels,
\* of each tower.  probe is an enemy built outside the EnemyManager, new
\* Scout(0, 0) followed by setPath(ScenarioPath), with the simulated time
\* its update has been given
InitHarness ==
  /\ testPool = NewPool([k \in 1..TestPoolSize |-> k])
  /\ resetCalls = 0
  /\ lastCall = NoCall
  /\ sites = <<>>
  /\ probe = [e |-> setPathOn(NewEnemy("scout"), ScenarioPath), clock |-> 0]

Init == InitGame /\ InitHarness

\* the operations of the player
PlayerNext(max) ==
  \/ StartGame(max)
  \/ TogglePause(max)
  \/ StartNextWave(max)
  \/ \E type \in TowerTypes : SelectTowerType(max, type)
  \/ \E x \in ClickXs : ClickPlace(max, x)
  \/ \E x \in ClickXs : ClickSelect(max, x)
  \/ RightClick(max)
  \/ UpgradeTower(max)
  \/ SellTower(max)

\* the frames of the game loop
FrameNext ==
  \/ \E dt \in DeltaTimes : BeginFrame(dt)
  \/ TowerPass
  \/ EnemyPass
  \/ EndFrame

Next == FrameNext \/ PlayerNext(MaxOps)

\* the game: frames and player operations
Spec == Init /\ [][Next]_vars

\* ------------------------------------------------------------ direct calls
\* The methods of ObjectPool, EnemyManager, TowerManager, the entities and
\* Game called one by one, as a test or another caller would, on the program
\* as constructed.

\* objects a caller hands to the pool under test: the TestPoolSize built
\* with the pool, those createFn builds later, and one more that is never
\* the pool's
MaxTestObjects == 5

\* calls of resetFn counted
MaxResetCalls == 5

\* the objects built so far are 1..PoolBuilt: each is in the free list or
\* in the active set
PoolBuilt == Len(testPool.pool) + Len(testPool.activeObjects)

\* ObjectPool.get on the pool under test
PoolTestGet ==
  /\ Len(testPool.pool) > 0 \/ PoolBuilt + 1 < MaxTestObjects
  /\ testPool' = PoolGet(testPool, PoolBuilt + 1)
  /\ lastCall' = [op |-> "get", obj |-> PoolGetObj(testPool, PoolBuilt + 1),
                  found |-> Len(testPool.pool) > 0]
  /\ UNCHANGED <<gameVars, worldVars, towerVars, ctrlVars, resetCalls, sites, probe>>

\* ObjectPool.release(obj) on the pool under test
PoolTestRelease(obj) ==
  /\ resetCalls < MaxResetCalls
  /\ testPool' = PoolRelease(testPool, obj)
  /\ resetCalls' = IF PoolReleases(testPool, obj) THEN resetCalls + 1
                   ELSE resetCalls
  /\ lastCall' = [op |-> "release", obj |-> obj,
                  found |-> obj \in Elems(testPool.activeObjects)]
  /\ UNCHANGED <<gameVars, worldVars, towerVars, ctrlVars, sites, probe>>

RECURSIVE PoolReleaseAllFrom(_, _)
\* ObjectPool.releaseAll, the while loop: the pool after it and the number
\* of resetFn calls made
PoolReleaseAllFrom(p, n) ==
  IF Len(p.activeObjects) > 0
  THEN PoolReleaseAllFrom(PoolRelease(p, p.activeObjects[1]), n + 1)
  ELSE [pool |-> p, resets |-> n]

\* ObjectPool.releaseAll on the pool under test
PoolTestReleaseAll ==
  /\ resetCalls + Len(testPool.activeObjects) <= MaxResetCalls
  /\ testPool' = PoolReleaseAllFrom(testPool, 0).pool
  /\ resetCalls' = resetCalls + PoolReleaseAllFrom(testPool, 0).resets
  /\ lastCall' = [op |-> "releaseAll", obj |-> 0,
                  found |-> Len(testPool.activeObjects) > 0]
  /\ UNCHANGED <<gameVars, worldVars, towerVars, ctrlVars, sites, probe>>

\* the pool under test: get, release of any object, releaseAll
PoolNext ==
  \/ PoolTestGet
  \/ \E obj \in 1..MaxTestObjects : PoolTestRelease(obj)
  \/ PoolTestReleaseAll

SpecPool == Init /\ [][PoolNext]_vars

\* a direct call of a method of the managers, of an enemy or of Game: at
\* most max of them, made while at most window updates have run
Call(max, window) ==
  /\ pc = Idle
  /\ ops < max
  /\ frames <= window
  /\ ops' = ops + 1
  /\ UNCHANGED <<pc, frames, gameVars, testPool, resetCalls, sites, probe>>

\* the enemies a caller holds a reference to: the active ones and, of each
\* pool, the one released last (or built last)
Handles ==
  Elems(enemies)
    \cup {enemyPool[type].pool[Len(enemyPool[type].pool)] :
            type \in {t \in EnemyTypes : Len(enemyPool[t].pool) > 0}}

\* amounts handed to takeDamage and to heal
DamageAmounts == {0, 7, 100}

HealAmounts == {3, 100}

\* EnemyManager.spawnEnemy(type)
CallSpawnEnemy(max, window, type) ==
  /\ Call(max, window)
  /\ SetWorld(SpawnEnemy(World, type))
  /\ lastCall' = [op |-> "spawnEnemy",
                  obj |-> PoolGetObj(enemyPool[type], Len(ent) + 1),
                  found |-> FALSE]
  /\ UNCHANGED towerVars

\* EnemyManager.removeEnemy(enemy)
CallRemoveEnemy(max, window, id) ==
  /\ Call(max, window)
  /\ SetWorld(RemoveEnemy(World, id))
  /\ lastCall' = [op |-> "removeEnemy", obj |-> id, found |-> ent[id].isDead]
  /\ UNCHANGED towerVars

\* EnemyManager.clear()
CallClear(max, window) ==
  /\ Call(max, window)
  /\ SetWorld(ManagerClear(World))
  /\ lastCall' = [op |-> "clear", obj |-> 0, found |-> FALSE]
  /\ UNCHANGED towerVars

\* enemy.takeDamage(amount)
CallTakeDamage(max, window, id, amount) ==
  /\ Call(max, window)
  /\ ent' = [ent EXCEPT ![id] = takeDamage(@, amount)]
  /\ lastCall' = [op |-> "takeDamage", obj |-> id, found |-> ent[id].isDead]
  /\ UNCHANGED <<gold, score, lives, enemies, enemyPool, towerVars>>

\* enemy.heal(amount)
CallHeal(max, window, id, amount) ==
  /\ Call(max, window)
  /\ ent' = [ent EXCEPT ![id] = heal(@, amount)]
  /\ lastCall' = [op |-> "heal", obj |-> id, found |-> ent[id].isDead]
  /\ UNCHANGED <<gold, score, lives, enemies, enemyPool, towerVars>>

\* enemy.onDeath(), the death hook
CallOnDeath(max, window, id) ==
  /\ Call(max, window)
  /\ SetWorld(EnemyOnDeath(World, id))
  /\ lastCall' = [op |-> "onDeath", obj |-> id, found |-> ent[id].isDead]
  /\ UNCHANGED towerVars

\* Game.takeDamage(damage)
CallGameTakeDamage(max, window, damage) ==
  /\ Call(max, window)
  /\ SetWorld(GameTakeDamage(World, damage))
  /\ lastCall' = [op |-> "Game.takeDamage", obj |-> 0, found |-> FALSE]
  /\ UNCHANGED towerVars

\* EnemyManager.update(dt), at most max times
CallManagerUpdate(max, dt) ==
  /\ pc = Idle
  /\ frames < max
  /\ frames' = frames + 1
  /\ SetWorld(ManagerUpdate(World, dt))
  /\ lastCall' = [op |-> "update", obj |-> 0,
                  found |-> ManagerUpdate(World, dt).lives < lives]
  /\ UNCHANGED <<gameVars, towerVars, pc, ops, testPool, resetCalls, sites, probe>>

\* TowerManager.placeTower(type, x, 210), while fewer than maxTowers stand
PlaceDirect(max, window, maxTowers, type, x) ==
  /\ Call(max, window)
  /\ Len(towers) < maxTowers
  /\ towers' = Append(towers, NewTower(type, x))
  /\ lastCall' = [op |-> "placeTower", obj |-> Len(towers) + 1,
                  found |-> FALSE]
  /\ UNCHANGED <<worldVars, selectedTower>>

\* tower.upgrade() on the i-th tower
UpgradeDirect(max, window, i) ==
  /\ Call(max, window)
  /\ towers' = [towers EXCEPT ![i] = upgrade(@)]
  /\ lastCall' = [op |-> "upgrade", obj |-> i, found |-> towers[i].level >= 3]
  /\ UNCHANGED <<worldVars, selectedTower>>

\* the system updates of Game.updateGameplay, dt after the previous ones:
\* towerManager.update(dt, enemyManager.enemies), enemyManager.update(dt)
UpdateSystems(max, dt) ==
  /\ pc = Idle
  /\ frames < max
  /\ frames' = frames + 1
  /\ LET aged == [i \in 1..Len(towers) |-> AgeTower(towers[i], dt)]
         r == TowersUpdate(aged, World, dt)
     IN /\ towers' = r.towers
        /\ SetWorld(ManagerUpdate(r.w, dt))
        /\ lastCall' = [op |-> "update", obj |-> 0,
                        found |-> ManagerUpdate(r.w, dt).lives < lives]
  /\ UNCHANGED <<gameVars, selectedTower, pc, ops, testPool, resetCalls, sites, probe>>

\* ------------------------------------------------- the enemy manager alone
MaxManagerCalls == 4

MaxManagerUpdates == 2

\* spawnEnemy, removeEnemy, clear and update of the enemy manager, and
\* takeDamage, heal and the death hook of the enemies, in any order
ManagerNext ==
  \/ \E type \in EnemyTypes :
       CallSpawnEnemy(MaxManagerCalls, MaxManagerUpdates, type)
  \/ \E id \in Handles :
       CallRemoveEnemy(MaxManagerCalls, MaxManagerUpdates, id)
  \/ CallClear(MaxManagerCalls, MaxManagerUpdates)
  \/ \E id \in Handles, amount \in DamageAmounts :
       CallTakeDamage(MaxManagerCalls, MaxManagerUpdates, id, amount)
  \/ \E id \in Handles, amount \in HealAmounts :
       CallHeal(MaxManagerCalls, MaxManagerUpdates, id, amount)
  \/ \E id \in Handles : CallOnDeath(MaxManagerCalls, MaxManagerUpdates, id)
  \/ \E dt \in DeltaTimes : CallManagerUpdate(MaxManagerUpdates, dt)

SpecManager == Init /\ [][ManagerNext]_vars

\* ------------------------------------------------ enemies walking the path
MaxPathCalls == 4

MaxPathUpdates == 56

\* lives taken by the direct calls of Game.takeDamage
LifeLosses == {19}

\* enemies spawned and lives taken before the first update; then the enemy
\* manager updated until the slowest enemy is through, and enemies hurt
\* between the updates
PathNext ==
  \/ \E type \in EnemyTypes : CallSpawnEnemy(MaxPathCalls, 0, type)
  \/ \E id \in Elems(enemies), amount \in DamageAmounts :
       CallTakeDamage(MaxPathCalls, MaxPathUpdates, id, amount)
  \/ \E damage \in LifeLosses : CallGameTakeDamage(MaxPathCalls, 0, damage)
  \/ \E dt \in DeltaTimes : CallManagerUpdate(MaxPathUpdates, dt)

SpecPath == Init /\ [][PathNext]_vars

\* ----------------------------------------- towers and enemies, no economy
MaxArenaCalls == 4

MaxArenaUpdates == 22

MaxArenaTowers == 1

\* where the towers are put: the grid cell centre (210,210)
ArenaXs == {21000}

\* towers placed and enemies spawned by direct calls before the first system
\* update, towers upgraded by direct calls between the system updates
ArenaNext ==
  \/ \E type \in TowerTypes, x \in ArenaXs :
       PlaceDirect(MaxArenaCalls, 0, MaxArenaTowers, type, x)
  \/ \E i \in 1..Len(towers) :
       UpgradeDirect(MaxArenaCalls, MaxArenaUpdates, i)
  \/ \E type \in EnemyTypes : CallSpawnEnemy(MaxArenaCalls, 0, type)
  \/ \E dt \in DeltaTimes : UpdateSystems(MaxArenaUpdates, dt)

SpecArena == Init /\ [][ArenaNext]_vars

\* ------------------------------------------------ the player, no frames
MaxShopOps == 8

SpecShop == Init /\ [][PlayerNext(MaxShopOps)]_vars

\* ================================================================ properties
\* the enemies that are not in the EnemyManager's active list
Inactive == DOMAIN ent \ Elems(enemies)

\* C1: in the tower pass of a tick (tower attacks, chain lightning, slow
\* fields, projectile hits) no enemy outside the manager's active list has
\* its health or its status effects changed.
InactiveEnemiesUntouched ==
  [][TowerPass =>
       \A id \in Inactive :
         /\ ent'[id].health = ent[id].health
         /\ ent'[id].statusEffects = ent[id].statusEffects]_vars

\* C2: right after the target evaluation of Tower.update, i.e. when the
\* tower pass of a tick is over, the target of every archer and cannon tower
\* is null or an enemy of the active list that is alive and within 2.0 times
\* the tower's range.
TargetLiveAndNear ==
  pc.phase = "enemies" =>
    \A i \in 1..Len(towers) :
      towers[i].towerType # "magic" =>
        \/ towers[i].target = 0
        \/ /\ towers[i].target \in Elems(enemies)
           /\ ent[towers[i].target].isAlive
           /\ TowerDistance(towers[i], World, towers[i].target)
                <= 2 * towers[i].range

\* C3: the enemy that spawnEnemy has just put on the active list, fresh or
\* re-acquired from its pool, has full health, stands on the path start,
\* has no status effects, and is at waypoint index 0.
ReacquiredEnemyIsReset ==
  [][Len(enemies') > Len(enemies) =>
       LET e == ent'[enemies'[Len(enemies')]]
       IN /\ e.health = e.maxHealth
          /\ e.position = Path[1]
          /\ e.statusEffects = NoEffects
          /\ e.currentWaypoint = 0]_vars

\* how many times x occurs in the sequence s
Count(s, x) == Cardinality({i \in 1..Len(s) : s[i] = x})

\* the enemy id is on the active list once and in the active set of its
\* type's pool once, and in no free list
IsActive(id) ==
  /\ Count(enemies, id) = 1
  /\ Count(enemyPool[ent[id].enemyType].activeObjects, id) = 1
  /\ Count(enemyPool[ent[id].enemyType].pool, id) = 0

\* the enemy id is in the free list of its type's pool once, and neither on
\* the active list nor in the pool's active set
IsPooled(id) ==
  /\ Count(enemies, id) = 0
  /\ Count(enemyPool[ent[id].enemyType].activeObjects, id) = 0
  /\ Count(enemyPool[ent[id].enemyType].pool, id) = 1

\* C4: every enemy instance is in exactly one place, the active list (and
\* the active set of its type's pool) or the free list of its type's pool,
\* once, and in no pool of another type.
EachEnemyInOnePlace ==
  \A id \in DOMAIN ent :
    /\ IsActive(id) \/ IsPooled(id)
    /\ \A type \in EnemyTypes \ {ent[id].enemyType} :
         /\ Count(enemyPool[type].pool, id) = 0
         /\ Count(enemyPool[type].activeObjects, id) = 0

\* an update has removed an enemy that was killed, and another enemy is
\* still active
RemovedByUpdate ==
  /\ lastCall.op = "update"
  /\ score > 0
  /\ Len(enemies) > 0

\* no object is twice in the free list and the active set of the pool
\* under test taken together
NoDuplicates ==
  \A obj \in 1..MaxTestObjects :
    Count(testPool.pool, obj) + Count(testPool.activeObjects, obj) <= 1

\* C5: release of an object that is not active leaves the free list and the
\* active set as they are and does not run resetFn; no object is ever twice
\* in the pool, and get never returns an object that is already active.
ReleaseOfInactiveIsNoOp ==
  /\ []NoDuplicates
  /\ [][/\ lastCall'.op = "release" /\ ~lastCall'.found
           => UNCHANGED <<testPool, resetCalls>>
        /\ lastCall'.op = "get"
           => lastCall'.obj \notin Elems(testPool.activeObjects)]_vars

\* an object that was released before has been released again
ReleasedTwice ==
  /\ lastCall.op = "release"
  /\ ~lastCall.found
  /\ lastCall.obj \in Elems(testPool.pool)
  /\ resetCalls >= 1

\* C6: the health of every enemy is between 0 and its maxHealth.
HealthInBounds ==
  \A id \in DOMAIN ent : 0 <= ent[id].health /\ ent[id].health <= ent[id].maxHealth

\* an enemy has been healed back to full health while another one is at
\* health 0
HealedToFull ==
  /\ lastCall.op = "heal"
  /\ ~lastCall.found
  /\ ent[lastCall.obj].health = ent[lastCall.obj].maxHealth
  /\ ent[lastCall.obj].invulnerable
  /\ \E id \in DOMAIN ent : ent[id].health = 0

RECURSIVE Total(_, _)
\* the sum over the enemies ids of the figure field of their kind
Total(ids, field) ==
  IF ids = {} THEN 0
  ELSE LET id == CHOOSE x \in ids : TRUE
       IN EnemyStats[ent[id].enemyType][field] + Total(ids \ {id}, field)

\* the active enemies that have lost all health and have not died yet
Slain == {id \in Elems(enemies) : ent[id].health <= 0 /\ ~ent[id].isDead}

\* C8: a call of the death hook, of takeDamage or of heal on an enemy
\* that has already died grants no gold and no score, and an update of
\* the enemy manager grants the rewards of the enemies that die in it, no
\* more.
RewardedOnce ==
  [][/\ lastCall'.op \in {"onDeath", "takeDamage", "heal"} /\ lastCall'.found
        => gold' = gold /\ score' = score
     /\ lastCall'.op = "update" /\ frames' = frames + 1
        => /\ gold' = gold + Total(Slain, "goldReward")
           /\ score' = score + Total(Slain, "scoreReward")]_vars

\* the active enemies that the next update takes past the last waypoint:
\* alive, bound for the last waypoint and less than 5 pixels from it
ReachingEnd ==
  {id \in Elems(enemies) :
     /\ ent[id].isAlive /\ ~ent[id].isDead /\ ent[id].health > 0
     /\ ent[id].currentWaypoint = Len(Path) - 1
     /\ distance(ent[id].position, Path[Len(Path)]) < 500}

\* C9: an update of the enemy manager takes from the lives the contact
\* damage of the enemies that reach the end of the path in it, stopping at
\* 0, and nothing else; it takes those enemies off the active list; and it
\* pays gold and score for the enemies that die in it only, never for one
\* that reaches the end.
ReachEndCostsLivesOnce ==
  [][lastCall'.op = "update" /\ frames' = frames + 1
       => /\ lives' = Max(0, lives - Total(ReachingEnd, "damage"))
          /\ ReachingEnd \cap Elems(enemies') = {}
          /\ ReachingEnd \cap Slain = {}
          /\ gold' = gold + Total(Slain, "goldReward")
          /\ score' = score + Total(Slain, "scoreReward")]_vars

\* the latest update has taken the last life for a knight or a dragon
\* (contact damage 2 or 3) at the end of the path: the scouts, spawned
\* before the first update, are through after 24 updates
LivesClampedAtZero ==
  /\ lastCall.op = "update"
  /\ lastCall.found
  /\ lives = 0
  /\ frames > 30

\* C7: two consecutive attacks of a tower are at least 1000 / attackSpeed
\* milliseconds apart, attackSpeed being the tower's at the later attack
\* (attackSpeed is kept in ten-thousandths per second).
AttacksRespectCooldown ==
  \A i \in 1..Len(towers) :
    towers[i].fireGap >= 0 =>
      towers[i].fireGap * towers[i].fireSpeed >= 10000000

\* the tower a step of the player upgrades, 0 when none
Upgraded(ts, ts2) ==
  IF Len(ts2) = Len(ts) /\ \E i \in 1..Len(ts) : ts2[i].level > ts[i].level
  THEN CHOOSE i \in 1..Len(ts) : ts2[i].level > ts[i].level
  ELSE 0

\* C10: gold is never negative; a placement made with less gold than the
\* tower costs, and an upgrade made with less gold than it costs, change
\* neither the towers nor the gold; a step that adds a tower or raises a
\* level takes exactly its cost, and no other step takes gold.
PurchasesAreExact ==
  /\ [](gold >= 0)
  /\ [][/\ (\E x \in ClickXs : ClickPlace(MaxShopOps, x))
             /\ gold < TowerCost(selectedTowerType)
           => UNCHANGED <<towers, gold>>
        /\ UpgradeTower(MaxShopOps)
             /\ gold < getUpgradeCost(towers[selectedTower])
           => UNCHANGED <<towers, gold>>
        /\ Len(towers') > Len(towers)
           => /\ towers' = Append(towers, towers'[Len(towers')])
              /\ gold' = gold - TowerCost(towers'[Len(towers')].towerType)
        /\ Upgraded(towers, towers') # 0
           => gold' = gold
                - getUpgradeCost(towers[Upgraded(towers, towers')])
        /\ gold' < gold
           => Len(towers') > Len(towers) \/ Upgraded(towers, towers') # 0
       ]_vars

\* an archer tower bought with exactly the 10 gold left
SpentToZero ==
  /\ gold = 0
  /\ Len(towers) > 0
  /\ towers[Len(towers)].towerType = "archer"
  /\ towers[Len(towers)].level = 1

\* ------------------------------------------------ placement on the whole map
\* Game.setupPath: the waypoints of the whole path, in pixels
Waypoints ==
  <<<<-30, 210>>, <<30, 210>>, <<90, 210>>, <<150, 210>>, <<210, 150>>,
    <<270, 90>>, <<330, 90>>, <<390, 150>>, <<450, 210>>, <<510, 270>>,
    <<570, 330>>, <<630, 330>>, <<690, 270>>, <<750, 210>>, <<810, 150>>,
    <<870, 150>>, <<930, 150>>>>

\* distance(x1, y1, x2, y2) < d, for points and d in whole pixels
Nearer(p, q, d) ==
  (p[1] - q[1]) * (p[1] - q[1]) + (p[2] - q[2]) * (p[2] - q[2]) < d * d

\* TowerManager.canPlaceTower(gridX, gridY), given the towers ss; the
\* manager's gridSize is 40
canPlaceTowerAt(ss, gridX, gridY) ==
  /\ ~(gridX < 0 \/ gridX >= 15 * 40 \/ gridY < 0 \/ gridY >= 10 * 40)
  /\ LET cell == <<Floor(gridX, 40), Floor(gridY, 40)>>
     IN cell[2] < 10 /\ cell[1] < 15 => cell \notin Decorated \cup PathCells
  /\ \A i \in 1..Len(ss) : ~Nearer(<<ss[i].x, ss[i].y>>, <<gridX, gridY>>, 40)
  /\ \A i \in 1..Len(Waypoints) : ~Nearer(Waypoints[i], <<gridX, gridY>>, 35)

\* Game.placeTower(x, y): gold and towers after it; the game's gridSize
\* is 60
placeTowerAt(g, ss, type, x, y) ==
  LET gridX == Floor(x, 60) * 60 + 30
      gridY == Floor(y, 60) * 60 + 30
  IN IF type # "none" /\ canPlaceTowerAt(ss, gridX, gridY)
          /\ g >= TowerCost(type)
     THEN [gold |-> g - TowerCost(type),
           sites |-> Append(ss, [towerType |-> type, x |-> gridX,
                                 y |-> gridY]),
           placed |-> TRUE]
     ELSE [gold |-> g, sites |-> ss, placed |-> FALSE]

\* Game.onMouseClick in placement mode, at any point p of the canvas and
\* around it: Game.placeTower
ClickMap(max, p) ==
  /\ pc = Idle
  /\ ops < max
  /\ ops' = ops + 1
  /\ state \in {"playing", "wave_preparing"}
  /\ isPlacingTower /\ selectedTowerType # "none"
  /\ LET r == placeTowerAt(gold, sites, selectedTowerType, p[1], p[2])
     IN /\ gold' = r.gold
        /\ sites' = r.sites
        /\ isPlacingTower' = IF r.placed THEN FALSE ELSE isPlacingTower
        /\ selectedTowerType' = IF r.placed THEN "none" ELSE selectedTowerType
  /\ UNCHANGED <<state, isPaused, previousState, deltaTime, currentWave,
                 currentWaveObj, waveTimer, spawnTimer, currentEnemyGroup,
                 waves, highScore, score, lives, ent, enemies, enemyPool,
                 towerVars, pc, frames, testPool, resetCalls, lastCall, probe>>

MaxMapOps == 6

\* the points clicked: in the tree cell (3,1), in the rock cell (4,2), in
\* the path cell (1,3), in the free cells (3,3) and (11,1), and right of
\* the map
ClickPoints ==
  {<<200, 100>>, <<250, 130>>, <<100, 200>>, <<215, 215>>, <<690, 90>>,
   <<930, 90>>}

\* the game started, tower types selected, and clicks on the map
MapNext ==
  \/ StartGame(MaxMapOps)
  \/ \E type \in TowerTypes : SelectTowerType(MaxMapOps, type)
  \/ \E p \in ClickPoints : ClickMap(MaxMapOps, p)

SpecMap == Init /\ [][MapNext]_vars

\* the cell of the game's 15 x 10 map that holds the point (x, y)
MapCell(x, y) == <<Floor(x, 60), Floor(y, 60)>>

\* canBuildTower of the map cell that holds (x, y); false outside the map
Buildable(x, y) ==
  /\ MapCell(x, y)[1] \in 0..14
  /\ MapCell(x, y)[2] \in 0..9
  /\ MapCell(x, y) \notin Decorated \cup PathCells

\* C11: a click in a cell that is not buildable (tree, rock, path), that
\* holds a tower already, or that is outside the map changes neither the
\* towers nor the gold; and no tower stands on a cell that is not
\* buildable.
PlacementRespectsMap ==
  /\ [](\A i \in 1..Len(sites) : Buildable(sites[i].x, sites[i].y))
  /\ [][\A p \in ClickPoints :
          /\ ClickMap(MaxMapOps, p)
          /\ \/ ~Buildable(p[1], p[2])
             \/ \E i \in 1..Len(sites) :
                  MapCell(sites[i].x, sites[i].y) = MapCell(p[1], p[2])
          => UNCHANGED <<sites, gold>>]_vars

\* ---------------------------------------------------- a tower taking aim
\* tower.findTarget(enemyManager.enemies) on the i-th tower; found tells
\* whether the tower had a valid target before
CallFindTarget(max, window, i) ==
  /\ Call(max, window)
  /\ towers' = [towers EXCEPT ![i].target = findTarget(towers[i], World)]
  /\ lastCall' = [op |-> "findTarget", obj |-> i,
                  found |-> /\ towers[i].target # 0
                            /\ ent[towers[i].target].isAlive
                            /\ TowerDistance(towers[i], World,
                                             towers[i].target)
                                 <= 2 * towers[i].range]
  /\ UNCHANGED <<worldVars, selectedTower>>

MaxAimCalls == 5

MaxAimUpdates == 5

\* where the tower is put: beside the waypoint (90,210)
AimXs == {9000}

\* one tower placed before the first update and enemies spawned before the
\* second; enemies killed, and the tower's findTarget called, between the
\* updates of the enemy manager
AimNext ==
  \/ \E type \in TowerTypes, x \in AimXs :
       PlaceDirect(MaxAimCalls, 0, 1, type, x)
  \/ \E type \in EnemyTypes : CallSpawnEnemy(MaxAimCalls, 1, type)
  \/ \E id \in Elems(enemies) :
       CallTakeDamage(MaxAimCalls, MaxAimUpdates, id, 100)
  \/ \E i \in 1..Len(towers) : CallFindTarget(MaxAimCalls, MaxAimUpdates, i)
  \/ \E dt \in DeltaTimes : CallManagerUpdate(MaxAimUpdates, dt)

SpecAim == Init /\ [][AimNext]_vars

\* the places in the list of the live enemies within the range of tower t
InRange(t) ==
  {k \in 1..Len(enemies) :
     ent[enemies[k]].isAlive
       /\ Abs(ent[enemies[k]].position - t.position) <= t.range}

\* C12: findTarget on a tower without a valid target stores the live enemy
\* within the tower's range that is nearest, the first in the list among
\* equally near ones, and no enemy when none is within range.
NearestIsTargeted ==
  [][\A i \in 1..Len(towers) :
       CallFindTarget(MaxAimCalls, MaxAimUpdates, i) /\ ~lastCall'.found
       => LET t == towers[i]
              far(k) == Abs(ent[enemies[k]].position - t.position)
          IN IF InRange(t) = {}
             THEN towers'[i].target = 0
             ELSE \E k \in InRange(t) :
                    /\ towers'[i].target = enemies[k]
                    /\ \A j \in InRange(t) : far(k) <= far(j)
                    /\ \A j \in InRange(t) : far(j) = far(k) => k <= j]_vars

\* findTarget has just chosen among three live enemies within range, two
\* of them equally near and the third farther: it took the first of the two
TieGoesToFirst ==
  /\ lastCall.op = "findTarget" /\ ~lastCall.found
  /\ LET t == towers[lastCall.obj]
         far(k) == Abs(ent[enemies[k]].position - t.position)
     IN \E j, k, l \in InRange(t) :
          /\ j < k /\ far(j) = far(k) /\ far(l) > far(j)
          /\ t.target = enemies[j]

\* --------------------------------------------------- a cannonball exploding
\* where the cannonballs explode: the start of the path, (-30,210)
BlastXs == {-3000}

\* onHit() of a cannonball of a level 1 cannon tower that has flown to x
CallExplode(max, window, x) ==
  /\ Call(max, window)
  /\ SetWorld(CannonballOnHit(
       NewProjectile("cannonball", x, x, 25, TowerStats.cannon.damage, 0,
                     TowerStats.cannon.explosionRadius), World))
  /\ lastCall' = [op |-> "onHit", obj |-> x, found |-> FALSE]
  /\ UNCHANGED towerVars

MaxBlastCalls == 5

MaxBlastUpdates == 12

\* enemies spawned before the second update; enemies hit for 7, and
\* cannonballs exploding, between the updates of the enemy manager
BlastNext ==
  \/ \E type \in EnemyTypes : CallSpawnEnemy(MaxBlastCalls, 1, type)
  \/ \E id \in Elems(enemies) :
       CallTakeDamage(MaxBlastCalls, MaxBlastUpdates, id, 7)
  \/ \E x \in BlastXs : CallExplode(MaxBlastCalls, MaxBlastUpdates, x)
  \/ \E dt \in DeltaTimes : CallManagerUpdate(MaxBlastUpdates, dt)

SpecBlast == Init /\ [][BlastNext]_vars

\* C13: when a cannonball explodes, every live enemy at most the explosion
\* radius away from the impact point loses health, and every enemy farther
\* away is left as it was.
SplashHitsAllWithinRadius ==
  [][\A x \in BlastXs :
       CallExplode(MaxBlastCalls, MaxBlastUpdates, x)
       => \A id \in Elems(enemies) :
            LET far == Abs(ent[id].position - x)
                radius == TowerStats.cannon.explosionRadius
            IN /\ ent[id].isAlive /\ far <= radius
                  => ent'[id].health < ent[id].health
               /\ far > radius => ent'[id] = ent[id]]_vars

\* ------------------------------------------------- a chain lightning strike
\* performChainLightning(firstTarget) of a level 1 magic tower, on a live
\* enemy of the list as MagicTower.update hands it over
CallChain(max, window, id) ==
  /\ Call(max, window)
  /\ id \in Elems(enemies) /\ ent[id].isAlive
  /\ SetWorld(performChainLightning(NewTower("magic", 0), World, id))
  /\ lastCall' = [op |-> "performChainLightning", obj |-> id,
                  found |-> FALSE]
  /\ UNCHANGED towerVars

MaxChainCalls == 5

MaxChainUpdates == 12

\* enemies spawned before the second update; enemies hit for 7, and chain
\* lightning striking, between the updates of the enemy manager
ChainNext ==
  \/ \E type \in EnemyTypes : CallSpawnEnemy(MaxChainCalls, 1, type)
  \/ \E id \in Elems(enemies) :
       CallTakeDamage(MaxChainCalls, MaxChainUpdates, id, 7)
  \/ \E id \in Elems(enemies) : CallChain(MaxChainCalls, MaxChainUpdates, id)
  \/ \E dt \in DeltaTimes : CallManagerUpdate(MaxChainUpdates, dt)

SpecChain == Init /\ [][ChainNext]_vars

RECURSIVE Reachable(_)
\* the live enemies that hops of at most the chain range lead to from the
\* enemies of the set ids
Reachable(ids) ==
  LET more == ids \cup
                {e \in Elems(enemies) :
                   /\ ent[e].isAlive
                   /\ \E s \in ids :
                        Abs(ent[e].position - ent[s].position)
                          <= TowerStats.magic.chainRange}
  IN IF more = ids THEN ids ELSE Reachable(more)

\* C14: a chain lightning strike with chainCount n takes health from
\* exactly min(n, number of enemies reachable from the first target by
\* chain hops) enemies, and from none of them more than one hit's damage.
ChainHitsCountDistinct ==
  [][\A id \in Elems(enemies) :
       CallChain(MaxChainCalls, MaxChainUpdates, id)
       => LET hurt == {e \in Elems(enemies) : ent'[e].health < ent[e].health}
          IN /\ Cardinality(hurt)
                  = Min(TowerStats.magic.chainCount,
                        Cardinality(Reachable({id})))
             /\ \A e \in hurt :
                  ent[e].health - ent'[e].health
                    <= TowerStats.magic.damage]_vars

\* ----------------------------------------------------------- status effects
\* the effects applied: the kind, the duration in ms, the strength in
\* hundredths
Effects ==
  {[type |-> "slow", duration |-> 1000, strength |-> 50],
   [type |-> "slow", duration |-> 500, strength |-> 30],
   [type |-> "freeze", duration |-> 300, strength |-> 100]}

\* enemy.applyStatusEffect(type, duration, strength); found tells whether
\* the enemy held another entry of the kind before
CallApplyStatusEffect(max, window, id, f) ==
  /\ Call(max, window)
  /\ ent' = [ent EXCEPT ![id] =
               applyStatusEffect(@, f.type, f.duration, f.strength)]
  /\ lastCall' = [op |-> "applyStatusEffect", obj |-> id,
                  found |-> /\ hasStatusEffect(ent[id], f.type)
                            /\ ent[id].statusEffects[f.type]
                                 # [duration |-> f.duration,
                                    strength |-> f.strength]]
  /\ UNCHANGED <<gold, score, lives, enemies, enemyPool, towerVars>>

MaxEffectCalls == 4

MaxEffectUpdates == 6

\* enemies spawned before the first update, and effects applied to them
\* between the updates of the enemy manager
EffectNext ==
  \/ \E type \in EnemyTypes : CallSpawnEnemy(MaxEffectCalls, 0, type)
  \/ \E id \in Elems(enemies), f \in Effects :
       CallApplyStatusEffect(MaxEffectCalls, MaxEffectUpdates, id, f)
  \/ \E dt \in DeltaTimes : CallManagerUpdate(MaxEffectUpdates, dt)

SpecEffect == Init /\ [][EffectNext]_vars

\* C15: applyStatusEffect leaves the entity with one entry of the kind,
\* holding the duration and the strength just given whatever the entry of
\* that kind held before, and with its entries of the other kinds as they
\* were.
StatusEffectReplaces ==
  [][\A id \in Elems(enemies), f \in Effects :
       CallApplyStatusEffect(MaxEffectCalls, MaxEffectUpdates, id, f)
       => /\ DOMAIN ent'[id].statusEffects
               = DOMAIN ent[id].statusEffects \cup {f.type}
          /\ ent'[id].statusEffects[f.type]
               = [duration |-> f.duration, strength |-> f.strength]
          /\ \A k \in DOMAIN ent[id].statusEffects \ {f.type} :
               ent'[id].statusEffects[k] = ent[id].statusEffects[k]]_vars

\* a slow of 500 ms and strength 0.3 has just replaced another slow, on an
\* enemy that is frozen as well
SlowReplaced ==
  /\ lastCall.op = "applyStatusEffect" /\ lastCall.found
  /\ hasStatusEffect(ent[lastCall.obj], "freeze")
  /\ ent[lastCall.obj].statusEffects["slow"]
       = [duration |-> 500, strength |-> 30]

\* ------------------------------------------------- waves, without towers
MaxCampaignOps == 4

MaxCampaignFrames == 80

\* the game started and restarted, and the next wave called for, at any
\* time; the frames of the game loop
CampaignNext ==
  \/ StartGameWithin(MaxCampaignOps, MaxCampaignFrames)
  \/ StartNextWaveWithin(MaxCampaignOps, MaxCampaignFrames)
  \/ \E dt \in DeltaTimes : Frame(dt, MaxCampaignFrames, MaxPrepFrames)
  \/ TowerPass
  \/ EnemyPass
  \/ EndFrame

SpecCampaign == Init /\ [][CampaignNext]_vars

\* the enemies of the groups 1..k of wave i, as generateWaves builds them
UpTo(i, k) ==
  SumCounts(WaveGroups(i), 1) - SumCounts(WaveGroups(i), k + 1)

\* C16: enemies are spawned group by group, at most one per tick and only
\* when the spawn timer has reached the group's interval, which resets the
\* timer; each group contributes exactly its count before the next one
\* begins; the wave is marked fully spawned exactly when the enemies
\* spawned equal the wave's total.
SpawningFollowsGroups ==
  /\ [](state = "playing" /\ currentWaveObj # 0
        => LET wave == waves[currentWaveObj]
               last == Len(WaveGroups(currentWaveObj))
           IN /\ wave.enemiesSpawned
                   >= UpTo(currentWaveObj, currentEnemyGroup)
              /\ currentEnemyGroup < last
                   => wave.enemiesSpawned
                        < UpTo(currentWaveObj, currentEnemyGroup + 1)
              /\ wave.isCompleted
                   <=> wave.enemiesSpawned = wave.totalEnemies)
  /\ [][\A dt \in DeltaTimes :
          Frame(dt, MaxCampaignFrames, MaxPrepFrames)
          => /\ Len(enemies') <= Len(enemies) + 1
             /\ Len(enemies') = Len(enemies) + 1
                  => /\ state = "playing"
                     /\ spawnTimer + dt
                          >= WaveGroups(currentWaveObj)
                               [currentEnemyGroup + 1].interval
                     /\ spawnTimer' = 0
                     /\ ent'[enemies'[Len(enemies')]].enemyType
                          = WaveGroups(currentWaveObj)
                              [currentEnemyGroup + 1].type]_vars

\* C17: a wave is completed only when all its enemies have been spawned
\* and no enemy is alive; completing wave n adds 10 + 2n gold and 50 + 10n
\* score, once, and leads to the preparation of wave n + 1 with that wave's
\* countdown, or to victory after wave 20; no other end of a frame changes
\* gold or score.
WaveCompletionRewardsOnce ==
  [][EndFrame
       => LET n == currentWave
              done == currentWave' # currentWave
          IN /\ done
                  => /\ waves[currentWaveObj].enemiesSpawned
                          = waves[currentWaveObj].totalEnemies
                     /\ getAliveEnemyCount(World) = 0
                     /\ currentWave' = n + 1
                     /\ gold' = gold + 10 + 2 * n
                     /\ score' = score + 50 + 10 * n
                     /\ IF n = 20 THEN state' = "victory"
                        ELSE /\ state' = "wave_preparing"
                             /\ currentWaveObj' = n + 1
                             /\ waveTimer' = PreparationTime(n + 1)
             /\ ~done => gold' = gold /\ score' = score]_vars

\* ------------------------------------------------------ pausing the game
MaxPauseOps == 6

MaxPauseFrames == 32

\* the game started, towers bought and the wave called for before the
\* first frame of gameplay; the game paused and resumed at any time; the
\* frames of the game loop
PauseNext ==
  \/ StartGame(MaxPauseOps)
  \/ StartNextWave(MaxPauseOps)
  \/ \E type \in TowerTypes : SelectTowerType(MaxPauseOps, type)
  \/ \E x \in ClickXs : ClickPlace(MaxPauseOps, x)
  \/ TogglePauseWithin(MaxPauseOps, MaxPauseFrames)
  \/ \E dt \in DeltaTimes : Frame(dt, MaxPauseFrames, MaxPrepFrames)
  \/ TowerPass
  \/ EnemyPass
  \/ EndFrame

SpecPause == Init /\ [][PauseNext]_vars

\* the time tower t has to wait before it may attack again, in units of
\* 1 / attackCooldown.den ms
RemainingCooldown(t) ==
  IF t.towerType = "magic" THEN Max(0, t.attackCooldown.num)
  ELSE Max(0, t.attackCooldown.num - t.elapsed * t.attackCooldown.den)

\* C18: a tick of the paused game changes nothing of the simulation: not
\* the state, the timers, the waves, gold, score, lives or the enemies, nor
\* any tower's target, projectiles or remaining attack cooldown (so that
\* the cooldown at resuming is the one at pausing); and resuming returns
\* to the state the game was paused in.
PauseFreezesSimulation ==
  /\ [][\A dt \in DeltaTimes :
          Frame(dt, MaxPauseFrames, MaxPrepFrames) /\ isPaused
          => /\ UNCHANGED <<state, waveTimer, spawnTimer, currentEnemyGroup,
                            waves, worldVars>>
             /\ Len(towers') = Len(towers)
             /\ \A i \in 1..Len(towers) :
                  /\ towers'[i].target = towers[i].target
                  /\ towers'[i].projectiles = towers[i].projectiles
                  /\ RemainingCooldown(towers'[i])
                       = RemainingCooldown(towers[i])]_vars
  /\ [][TogglePauseWithin(MaxPauseOps, MaxPauseFrames)
          => IF state = "paused" THEN state' = previousState
             ELSE state' = "paused" /\ previousState' = state]_vars

\* ------------------------------------------------------- upgrading towers
MaxUpgradeOps == 8

\* the operations of the player, and upgrade() called on the towers, before
\* the first frame
UpgradeNext ==
  \/ PlayerNext(MaxUpgradeOps)
  \/ \E i \in 1..Len(towers) : UpgradeDirect(MaxUpgradeOps, 0, i)

SpecUpgrade == Init /\ [][UpgradeNext]_vars

\* C19: the level of a tower is always 1, 2 or 3; upgrade() on a tower of
\* level 3 changes nothing, and Game.upgradeTower on a selected tower of
\* level 3 changes neither the tower nor the gold.
LevelStaysWithinThree ==
  /\ [](\A i \in 1..Len(towers) : towers[i].level \in 1..3)
  /\ [][\A i \in 1..Len(towers) :
          UpgradeDirect(MaxUpgradeOps, 0, i) /\ towers[i].level = 3
          => UNCHANGED <<towers, gold>>]_vars
  /\ [][UpgradeTower(MaxUpgradeOps) /\ towers[selectedTower].level = 3
          => UNCHANGED <<towers, gold>>]_vars

\* upgrade() has just returned false on a tower of level 3
UpgradeRefused ==
  /\ lastCall.op = "upgrade" /\ lastCall.found
  /\ lastCall.obj <= Len(towers)
  /\ towers[lastCall.obj].level = 3

\* ------------------------------------------------- the end of the last wave
\* lives, gold, score and stored high score at the end of the last wave
FinaleLives == {3, 4, 20}

FinaleGold == {0, 35}

FinaleScores == {2000}

FinaleHighScores == {0, 9000}

\* a wave of which every enemy has been spawned
SpawnedWave(i) ==
  [NewWave(i) EXCEPT !.count = [k \in 1..Len(WaveGroups(i)) |-> 0],
                     !.enemiesSpawned = SumCounts(WaveGroups(i), 1),
                     !.isCompleted = TRUE]

\* the game between two frames of wave 20, 100 ms before the last dragon
\* of the wave is due: the waves before are over, the other 72 enemies of
\* the wave have been spawned, killed or let through, and released to their
\* pools, and the towers have been sold
InitLastWave ==
  /\ state = "playing"
  /\ isPaused = FALSE
  /\ previousState = "none"
  /\ deltaTime = 100
  /\ currentWave = 20
  /\ currentWaveObj = 20
  /\ waveTimer = 0
  /\ spawnTimer = WaveGroups(20)[3].interval - 100
  /\ currentEnemyGroup = 2
  /\ waves = [i \in 1..20 |->
                IF i < 20 THEN SpawnedWave(i)
                ELSE [SpawnedWave(20) EXCEPT
                        !.count[3] = 1,
                        !.enemiesSpawned = @ - 1,
                        !.isCompleted = FALSE]]
  /\ selectedTowerType = "none"
  /\ isPlacingTower = FALSE
  /\ highScore \in FinaleHighScores
  /\ gold \in FinaleGold
  /\ lives \in FinaleLives
  /\ score \in FinaleScores
  /\ ent = InitialEnt
  /\ enemies = <<>>
  /\ enemyPool = InitialPools
  /\ towers = <<>>
  /\ selectedTower = 0
  /\ pc = Idle
  /\ frames = 0
  /\ ops = 0

MaxFinaleCalls == 1

MaxFinaleFrames == 40

\* the frames of the game loop, and the last enemy hit between two frames
FinaleNext ==
  \/ \E dt \in DeltaTimes : Frame(dt, MaxFinaleFrames, MaxPrepFrames)
  \/ TowerPass
  \/ EnemyPass
  \/ EndFrame
  \/ \E id \in Elems(enemies), amount \in DamageAmounts :
       CallTakeDamage(MaxFinaleCalls, MaxFinaleFrames, id, amount)

InitFinale == InitLastWave /\ InitHarness

SpecFinale == InitFinale /\ [][FinaleNext]_vars

\* C20: when the last wave is completed with lives left the game enters
\* victory and the victory handling runs: the stored high score is
\* overwritten with the score exactly when the score exceeds it, so that in
\* victory the stored high score is never below the score.
VictoryIsHandled ==
  /\ [][state' = "victory" /\ state # "victory"
          => /\ currentWave = 20 /\ lives' > 0
             /\ highScore' = IF score' > highScore THEN score'
                             ELSE highScore]_vars
  /\ [](state = "victory" => highScore >= score)

\* ------------------------------------------------ an enemy outside the game
\* the tick sizes, in ms, handed to the update of the enemy outside the game
ScenarioDeltas == {17, 100, 1112}

MaxScenarioTime == 1500

\* scout.update(dt) for the scout outside the game, while less than maxTime
\* ms have been simulated; window.game is the game, whose lives onReachEnd
\* takes
ProbeUpdate(maxTime, dt) ==
  /\ pc = Idle
  /\ probe.clock < maxTime
  /\ LET w == EnemyUpdateOn([World EXCEPT !.ent = <<probe.e>>], 1,
                            ScenarioPath, dt)
     IN /\ probe' = [e |-> w.ent[1], clock |-> probe.clock + dt]
        /\ lives' = w.lives
        /\ gold' = w.gold
        /\ score' = w.score
        /\ lastCall' = [op |-> "Enemy.update", obj |-> 0,
                        found |-> ~w.ent[1].isAlive]
  /\ UNCHANGED <<gameVars, ent, enemies, enemyPool, towerVars, ctrlVars,
                 testPool, resetCalls, sites>>

ScenarioNext == \E dt \in ScenarioDeltas : ProbeUpdate(MaxScenarioTime, dt)

SpecScenario == Init /\ [][ScenarioNext]_vars

\* C21: once the scout on the path (0,0), (100,0) has been given
\* (100 / 90) * 1000 ms of simulated time, its waypoint index is 1, it has
\* been destroyed, and the lives are one fewer than at the start
ScoutThroughOnTime ==
  probe.clock * 90 >= 100 * 1000
    => /\ probe.e.currentWaypoint = 1
       /\ ~probe.e.isAlive
       /\ lives = 20 - 1

\* C22: in every tick that runs the two passes, in the playing and in the
\* wave-preparing state alike, the enemy pass comes first and the tower pass
\* second: the pass a tick starts with is enemyManager.update, and the pass
\* that follows the enemy pass is towerManager.update
EnemyPassRunsFirst ==
  [][/\ (pc.phase = Idle.phase /\ pc'.phase # Idle.phase)
          => pc'.phase = "enemies"
     /\ (pc.phase = "enemies" /\ pc'.phase # "enemies")
          => pc'.phase = "towers"]_vars

\* ------------------------------------------------------------ typed damage
\* stats.armor of the enemy classes, and stats.magicResist in hundredths
Armor == [scout |-> 0, knight |-> 3, dragon |-> 1]

MagicResist == [scout |-> 0, knight |-> 10, dragon |-> 30]

\* the damage types the towers and their projectiles hand to takeDamage, and
\* the default of the parameter
DamageTypes == {"physical", "magic", "explosive", "normal"}

\* Enemy.onDamage: finalDamage, the amount it computes from the armor and
\* the magic resistance, in hundredths of a health point; it is rounded and
\* shown, and kept in lastDamageAmount
finalDamage(type, amount, damageType) ==
  IF damageType = "physical" /\ Armor[type] > 0
  THEN Max(100, (amount - Armor[type]) * 100)
  ELSE IF damageType = "magic" /\ MagicResist[type] > 0
  THEN Max(100, amount * (100 - MagicResist[type]))
  ELSE amount * 100

\* LivingEntity.takeDamage(amount, damageType): damageType is handed on to
\* onDamage and used nowhere else
takeDamageAs(e, amount, damageType) == takeDamage(e, amount)

\* enemy.takeDamage(amount, damageType); found tells whether the enemy took
\* the hit
CallTakeDamageAs(max, window, id, amount, damageType) ==
  /\ Call(max, window)
  /\ ent' = [ent EXCEPT ![id] = takeDamageAs(@, amount, damageType)]
  /\ lastCall' = [op |-> "takeDamage", obj |-> id,
                  found |-> ~ent[id].invulnerable /\ ~ent[id].isDead]
  /\ UNCHANGED <<gold, score, lives, enemies, enemyPool, towerVars>>

\* the amounts of the typed hits
HitAmounts == {10, 60}

MaxHitCalls == 4

MaxHitUpdates == 2

\* enemies spawned before the first update and hit, with every type of
\* damage, between the updates of the enemy manager
HitNext ==
  \/ \E type \in EnemyTypes : CallSpawnEnemy(MaxHitCalls, 0, type)
  \/ \E id \in Elems(enemies), amount \in HitAmounts, dtype \in DamageTypes :
       CallTakeDamageAs(MaxHitCalls, MaxHitUpdates, id, amount, dtype)
  \/ \E dt \in DeltaTimes : CallManagerUpdate(MaxHitUpdates, dt)

SpecHit == Init /\ [][HitNext]_vars

\* C23: the health an enemy loses from a hit it takes is the amount reduced
\* for the type of the damage, max(1, amount - armor) for physical damage,
\* max(1, amount * (1 - magicResist)) for magic damage and the amount itself
\* otherwise, or all the health it has left when that is less
HitCostsReducedAmount ==
  [][\A id \in Elems(enemies), amount \in HitAmounts, dtype \in DamageTypes :
       /\ CallTakeDamageAs(MaxHitCalls, MaxHitUpdates, id, amount, dtype)
       /\ ~ent[id].invulnerable
       /\ ~ent[id].isDead
       => (ent[id].health - ent'[id].health) * 100
            = Min(ent[id].health * 100,
                  finalDamage(ent[id].enemyType, amount, dtype))]_vars

\* ------------------------------------------------------- status resistance
\* this.statusResistance of the enemy classes, in hundredths
StatusResistance ==
  [scout  |-> [slow |-> 0, freeze |-> 0],
   knight |-> [slow |-> 30, freeze |-> 50],
   dragon |-> [slow |-> 60, freeze |-> 80]]

\* Enemy.onStatusEffectApplied: the values of its parameters duration and
\* strength after it has scaled them by the resistance, duration in
\* hundredths of a ms and strength in ten-thousandths; the method scales
\* its own parameters, after applyStatusEffect has stored the entry
onStatusEffectApplied(e, type, duration, strength) ==
  LET resistance == IF type \in DOMAIN StatusResistance[e.enemyType]
                    THEN StatusResistance[e.enemyType][type]
                    ELSE 0
  IN [duration |-> duration * (100 - resistance),
      strength |-> strength * (100 - resistance)]

\* C24: the entry applyStatusEffect leaves on an enemy that resists the kind
\* holds the duration and the strength given, each scaled by one minus the
\* resistance
StoredEffectIsResisted ==
  [][\A id \in Elems(enemies), f \in Effects :
       CallApplyStatusEffect(MaxEffectCalls, MaxEffectUpdates, id, f)
       => LET stored == ent'[id].statusEffects[f.type]
              scaled == onStatusEffectApplied(ent[id], f.type, f.duration,
                                              f.strength)
          IN /\ stored.duration * 100 = scaled.duration
             /\ stored.strength * 100 = scaled.strength]_vars

\* C25: an arrow fired by an archer tower with piercing shots flies on after
\* it has damaged a victim: the update in which such an arrow takes health
\* from an enemy leaves the arrow alive, to damage further enemies
ArrowFliesOnAfterHit ==
  \A i \in 1..Len(towers) :
    \A k \in 1..Len(towers[i].projectiles), dt \in DeltaTimes :
      LET p == towers[i].projectiles[k]
          r == ProjectileUpdate(p, World, dt)
      IN (p.kind = "arrow" /\ p.piercingCount > 0 /\ r.w.ent # ent)
           => r.alive

\* --------------------------------------------------------- the slow fields
\* where the magic towers stand: left of the start of the path and at its
\* middle, (-50,210) and (100,210); the two ranges overlap
FieldXs == {-5000, 10000}

\* TowerManager.removeTower(tower) on the i-th tower, as sellSelectedTower
\* calls it
RemoveDirect(max, window, i) ==
  /\ Call(max, window)
  /\ towers' = Splice(towers, i)
  /\ selectedTower' = IF selectedTower = i THEN 0
                      ELSE IF selectedTower > i THEN selectedTower - 1
                      ELSE selectedTower
  /\ lastCall' = [op |-> "removeTower", obj |-> i, found |-> TRUE]
  /\ UNCHANGED worldVars

\* towerManager.update(dt, enemyManager.enemies), dt after the previous
\* one, as the first of the two system updates of a tick; the enemy pass
\* follows
TowersUpdateDirect(max, dt) ==
  /\ pc = Idle
  /\ frames < max
  /\ frames' = frames + 1
  /\ deltaTime' = dt
  /\ LET aged == [i \in 1..Len(towers) |-> AgeTower(towers[i], dt)]
         r == TowersUpdate(aged, World, dt)
     IN /\ towers' = r.towers
        /\ SetWorld(r.w)
  /\ pc' = [phase |-> "enemies", gameplay |-> FALSE]
  /\ lastCall' = [op |-> "TowerManager.update", obj |-> 0, found |-> FALSE]
  /\ UNCHANGED <<state, isPaused, previousState, currentWave, currentWaveObj,
                 waveTimer, spawnTimer, currentEnemyGroup, waves,
                 selectedTowerType, isPlacingTower, highScore, selectedTower,
                 ops, testPool, resetCalls, sites, probe>>

MaxFieldCalls == 4

MaxFieldUpdates == 18

MaxFieldTowers == 2

\* the last tick after which a scout is spawned
MaxFieldSpawnTick == 5

\* magic towers placed before the first tick, scouts spawned and towers
\* removed between the ticks; a tick is the tower pass, the enemy pass and
\* the end of the frame
FieldNext ==
  \/ \E x \in FieldXs :
       PlaceDirect(MaxFieldCalls, 0, MaxFieldTowers, "magic", x)
  \/ CallSpawnEnemy(MaxFieldCalls, MaxFieldSpawnTick, "scout")
  \/ \E i \in 1..Len(towers) :
       RemoveDirect(MaxFieldCalls, MaxFieldUpdates, i)
  \/ \E dt \in DeltaTimes : TowersUpdateDirect(MaxFieldUpdates, dt)
  \/ EnemyPass
  \/ EndFrame

SpecField == Init /\ [][FieldNext]_vars

\* the magic towers whose nominal range holds the enemy
FieldsOver(id) ==
  {i \in 1..Len(towers) :
     /\ towers[i].towerType = "magic"
     /\ TowerDistance(towers[i], World, id) <= towers[i].range}

\* C26: at the end of every tower pass a live enemy of the active list
\* carries the slow effect if it is within the nominal range of at least one
\* magic tower, and carries none if it is within the range of no magic tower
\* that stands, whatever became of the tower that slowed it
SlowFollowsFields ==
  pc.phase = "enemies"
    => \A id \in Elems(enemies) :
         ent[id].isAlive
           => (hasStatusEffect(ent[id], "slow") <=> FieldsOver(id) # {})

\* C27: the first target of a chain-lightning strike is the nearest live
\* enemy within the nominal range of the magic tower at the moment of the
\* strike: at the end of a tower pass, the target of a tower that has struck
\* in the pass is within the range, and no live enemy of the list is nearer
StrikeStartsAtNearest ==
  pc.phase = "enemies"
    => \A i \in 1..Len(towers) :
         (towers[i].towerType = "magic" /\ towers[i].sinceFire = 0)
           => /\ towers[i].target # 0
              /\ TowerDistance(towers[i], World, towers[i].target)
                   <= towers[i].range
              /\ \A id \in Elems(enemies) :
                   ent[id].isAlive
                     => TowerDistance(towers[i], World, towers[i].target)
                          <= TowerDistance(towers[i], World, id)

\* ------------------------------------------------------------------ volleys
\* where the shooting tower stands: left of the start of the path, (-50,210)
VolleyXs == {-5000}

\* tower.attack() on the i-th tower, an archer or a cannon tower; found
\* tells whether the tower fired with its list of projectiles at the cap
CallAttack(max, window, i) ==
  /\ Call(max, window)
  /\ towers[i].towerType # "magic"
  /\ towers' = IF towers[i].target = 0 THEN towers
               ELSE [towers EXCEPT ![i] = attack(@, World)]
  /\ lastCall' = [op |-> "attack", obj |-> i,
                  found |-> /\ towers[i].target # 0
                            /\ Len(towers[i].projectiles) >= maxProjectiles]
  /\ UNCHANGED <<worldVars, selectedTower>>

MaxVolleyCalls == 12

MaxVolleyUpdates == 5

\* an archer or a cannon tower placed and a scout spawned before the first
\* tick; the tower told to take aim and to fire between the ticks; a tick
\* is the tower pass, the enemy pass and the end of the frame
VolleyNext ==
  \/ \E type \in {"archer", "cannon"}, x \in VolleyXs :
       PlaceDirect(MaxVolleyCalls, 0, 1, type, x)
  \/ CallSpawnEnemy(MaxVolleyCalls, 0, "scout")
  \/ \E i \in 1..Len(towers) :
       CallFindTarget(MaxVolleyCalls, MaxVolleyUpdates, i)
  \/ \E i \in 1..Len(towers) : CallAttack(MaxVolleyCalls, MaxVolleyUpdates, i)
  \/ \E dt \in DeltaTimes : TowersUpdateDirect(MaxVolleyUpdates, dt)
  \/ EnemyPass
  \/ EndFrame

SpecVolley == Init /\ [][VolleyNext]_vars

\* C28: no archer or cannon tower ever holds more than maxProjectiles
\* projectiles; a tower that fires with its list at the cap loses the oldest
\* projectile, keeps the others in their order and has the new projectile,
\* which starts at the tower, at the end of the list
ProjectilesWithinCap ==
  /\ [](\A i \in 1..Len(towers) :
          Len(towers[i].projectiles) <= maxProjectiles)
  /\ [][\A i \in 1..Len(towers) :
          /\ CallAttack(MaxVolleyCalls, MaxVolleyUpdates, i)
          /\ towers[i].target # 0
          /\ Len(towers[i].projectiles) >= maxProjectiles
          => LET old == towers[i].projectiles
                 new == towers'[i].projectiles
             IN /\ Len(new) = maxProjectiles
                /\ SubSeq(new, 1, Len(new) - 1) = Tail(old)
                /\ new[Len(new)].position = towers[i].position
                /\ new[Len(new)].target = ent[towers[i].target].position]_vars

\* a tower has just fired with its list at the cap, after projectiles of
\* its list had moved from where they were fired
FiredAtTheCap ==
  /\ lastCall.op = "attack" /\ lastCall.found
  /\ lastCall.obj <= Len(towers)
  /\ Len(towers[lastCall.obj].projectiles) = maxProjectiles
  /\ towers[lastCall.obj].projectiles[1].position
       # towers[lastCall.obj].position

\* what makes a projectile call onHit or destroy in its update, as the
\* projectile stands: it is at its aim point or out of the bounds of the
\* map, or it is an arrow whose target is dead or within 10 pixels
ProjectileSpent(q) ==
  \/ distance(q.position, q.target) < 1000
  \/ q.position < -5000
  \/ q.position > 95000
  \/ /\ q.kind = "arrow"
     /\ \/ q.targetEntity = 0
        \/ ~ent[q.targetEntity].isAlive
        \/ distance(q.position, ent[q.targetEntity].position) < 1000

TowerPassKeepsEnemyList ==
  /\ [][TowerPass => enemies' = enemies]_vars
  /\ [][enemies' # enemies
          => \/ \E dt \in DeltaTimes : BeginFrame(dt)
             \/ EnemyPass]_vars

\* the end of a tower pass that has taken the last health of an enemy: the
\* enemy is still in the list
KilledEnemyStillListed ==
  /\ pc.phase = "enemies"
  /\ state = "playing"
  /\ \E id \in Elems(enemies) : ent[id].health = 0 /\ ent[id].invulnerable

\* ------------------------------------------------------ a wave of no enemies
\* the groups handed to new Wave(1, groups, preparationTime) for the first
\* wave: no group, and one group of count 0
EmptyWaves ==
  {<<>>, <<[type |-> "scout", count |-> 0, interval |-> 1000]>>}

\* the time between two frames, in ms: currentTime - lastTime
EmptyWaveDeltas == {100, 1000}

\* the game as constructed, with the first of its waves replaced by a wave
\* of no enemies
InitEmptyWave ==
  /\ state = "menu"
  /\ isPaused = FALSE
  /\ previousState = "none"
  /\ deltaTime = 0
  /\ currentWave = 0
  /\ currentWaveObj = 0
  /\ waveTimer = 0
  /\ spawnTimer = 0
  /\ currentEnemyGroup = 0
  /\ \E groups \in EmptyWaves :
       waves = [i \in 1..20 |-> IF i = 1 THEN WaveOf(groups) ELSE NewWave(i)]
  /\ selectedTowerType = "none"
  /\ isPlacingTower = FALSE
  /\ highScore = 0
  /\ gold = 50
  /\ lives = 20
  /\ score = 0
  /\ ent = InitialEnt
  /\ enemies = <<>>
  /\ enemyPool = InitialPools
  /\ towers = <<>>
  /\ selectedTower = 0
  /\ pc = Idle
  /\ frames = 0
  /\ ops = 0

InitEmpty == InitEmptyWave /\ InitHarness

MaxEmptyOps == 3

MaxEmptyFrames == 12

\* the game started, the waves started by the player, and frames
EmptyNext ==
  \/ StartGameWithin(MaxEmptyOps, 0)
  \/ StartNextWaveWithin(MaxEmptyOps, MaxEmptyFrames)
  \/ \E dt \in EmptyWaveDeltas : Frame(dt, MaxEmptyFrames, MaxPrepFrames)
  \/ TowerPass
  \/ EnemyPass
  \/ EndFrame

SpecEmpty == InitEmpty /\ [][EmptyNext]_vars

\* the current wave has no enemies in all, and is not yet marked
EmptyWaveStarts ==
  /\ state = "playing" /\ ~isPaused
  /\ currentWaveObj # 0
  /\ waves[currentWaveObj].totalEnemies = 0
  /\ ~waves[currentWaveObj].isCompleted

\* C31: the first tick of a wave whose enemies are none in all marks the
\* wave completed and spawns no enemy, and at the end of that tick the game
\* is in the preparation of the next wave
EmptyWaveCompletesAtOnce ==
  /\ [][\A dt \in EmptyWaveDeltas :
          Frame(dt, MaxEmptyFrames, MaxPrepFrames) /\ EmptyWaveStarts
          => /\ waves'[currentWaveObj].isCompleted
             /\ enemies' = enemies
             /\ ent' = ent]_vars
  /\ [][(EndFrame /\ pc.gameplay /\ currentWave = 1)
          => (state' = "wave_preparing" /\ currentWave' = 2)]_vars

\* C32: startGame, from whatever state it is called in, leaves the game as
\* the first start does: gold 50, lives 20, score 0, the first wave in
\* preparation, no tower, no active enemy, and every wave as generateWaves
\* built it
StartGameRestoresAll ==
  [][StartGameWithin(MaxCampaignOps, MaxCampaignFrames)
       => /\ gold' = 50 /\ lives' = 20 /\ score' = 0
          /\ state' = "wave_preparing"
          /\ currentWave' = 1 /\ currentWaveObj' = 1
          /\ waveTimer' = PreparationTime(1)
          /\ towers' = <<>>
          /\ enemies' = <<>>
          /\ waves' = [i \in 1..20 |-> NewWave(i)]]_vars

\* the game loop keeps running: requestAnimationFrame calls Game.update
\* again and again
CampaignFrame ==
  \E dt \in DeltaTimes : Frame(dt, MaxCampaignFrames, MaxPrepFrames)

\* an update that has begun runs on, from the tower pass to the enemy pass
\* and to its end.  Each pass is enabled exactly when pc is at its phase and
\* it leaves that phase, so the weak fairness of the pass is that pc is
\* again and again not at its phase
UpdateRunsOn ==
  /\ []<>(pc.phase # "towers")
  /\ []<>(pc.phase # "enemies")
  /\ []<>(pc.phase # "end")

SpecCampaignFair ==
  /\ Init /\ [][CampaignNext]_vars
  /\ WF_vars(CampaignFrame)
  /\ UpdateRunsOn

\* the game is playing with no enemy alive and no group left to spawn from
Stalled ==
  /\ state = "playing"
  /\ currentWaveObj # 0
  /\ getAliveEnemyCount(World) = 0
  /\ currentEnemyGroup >= Len(waves[currentWaveObj].groups)

\* C33: while the frames go on the game does not stay for ever in the
\* playing state with no enemy alive and nothing left to spawn: it always
\* comes out of that again, into the preparation of the next wave, victory
\* or game over
WaveNeverStalls == []<>(~Stalled)

\* C34: the flag isPaused is set exactly when the game state is PAUSED, in
\* every reachable state: the game is never in wave_preparing or playing
\* with isPaused still set
PausedFlagMatchesState == isPaused <=> state = "paused"

\* C35: at the end of every tick, no lives left means the state is
\* GAME_OVER, and the state VICTORY means there are lives left: when the
\* last enemy of the last wave takes the last lives in the tick in which the
\* wave completes, the game is over, not won
LastLifeMeansGameOver ==
  pc = Idle => /\ lives <= 0 => state = "game_over"
               /\ state = "victory" => lives > 0

\* the last wave was completed, and the last lives taken, in one tick
LostInTheWinningTick ==
  /\ pc = Idle
  /\ state = "game_over"
  /\ lives = 0
  /\ currentWave > 20

\* ------------------------------------------------------------ kept targets
MaxHoldCalls == 3

MaxHoldUpdates == 14

\* the last tick after which an enemy is spawned
MaxHoldSpawnTick == 5

\* an archer or a cannon tower placed left of the start of the path, and
\* knights and scouts spawned, before or between the ticks; a tick is the
\* tower pass, the enemy pass and the end of the frame
HoldNext ==
  \/ \E type \in {"archer", "cannon"}, x \in VolleyXs :
       PlaceDirect(MaxHoldCalls, MaxHoldSpawnTick, 1, type, x)
  \/ \E type \in {"knight", "scout"} :
       CallSpawnEnemy(MaxHoldCalls, MaxHoldSpawnTick, type)
  \/ \E dt \in DeltaTimes : TowersUpdateDirect(MaxHoldUpdates, dt)
  \/ EnemyPass
  \/ EndFrame

SpecHold == Init /\ [][HoldNext]_vars

\* the live enemies of the active list within the nominal range of a tower
InNominalRange(t, w) ==
  {i \in 1..Len(w.enemies) :
     /\ w.ent[w.enemies[i]].isAlive
     /\ TowerDistance(t, w, w.enemies[i]) <= t.range}

\* C36: in a tick, an archer or cannon tower whose cooldown has passed and
\* which has a live enemy of the active list within its nominal range
\* fires, at a live enemy of the active list; a target it has kept does not
\* hold it from firing
ShooterFiresWhenInRange ==
  [][\A dt \in DeltaTimes :
       (TowersUpdateDirect(MaxHoldUpdates, dt) /\ Len(towers) > 0)
         => LET t == AgeTower(towers[1], dt)
            IN (CooldownPassed(t) /\ InNominalRange(t, World) # {})
                 => /\ towers'[1].sinceFire = 0
                    /\ \E i \in 1..Len(enemies) :
                         /\ towers'[1].target = enemies[i]
                         /\ ent[enemies[i]].isAlive]_vars

\* the projectiles tower t has in flight in a tick of dt, the one it fires in
\* this tick included, each where the tick moves it to
InFlight(t, w, dt) ==
  LET ps == TowerUpdate(AgeTower(t, dt), w).projectiles
  IN [k \in 1..Len(ps) |-> [ps[k] EXCEPT !.position = @ + ps[k].velocity * dt]]

\* C37: an arrow takes health from its target only in a tick in which the
\* arrow is within the hit radius, 10 units, of where the target now is: an
\* enemy that loses health in the tower pass of an archer tower has an
\* arrow aimed at it within that radius
ArrowHitsWhereTargetIs ==
  [][\A dt \in DeltaTimes :
       (/\ TowersUpdateDirect(MaxHoldUpdates, dt)
        /\ Len(towers) = 1
        /\ towers[1].towerType = "archer")
         => \A id \in DOMAIN ent :
              ent'[id].health < ent[id].health
                => \E k \in 1..Len(InFlight(towers[1], World, dt)) :
                     LET p == InFlight(towers[1], World, dt)[k]
                     IN /\ p.kind = "arrow"
                        /\ p.targetEntity = id
                        /\ distance(p.position, ent[id].position) < 1000]_vars

\* ------------------------------------------------------ the march to the end
\* the tick sizes, in ms: Game.update hands on currentTime - lastTime as it
\* is, whatever the time between two frames was
MarchDeltas == {100, 150}

\* the simulated time is counted up to here
MaxMarchTime == 3000

\* scout.update(dt) for the scout outside the game, tick after tick
ProbeMarch(dt) ==
  /\ pc = Idle
  /\ LET w == EnemyUpdateOn([World EXCEPT !.ent = <<probe.e>>], 1,
                            ScenarioPath, dt)
     IN /\ probe' = [e |-> w.ent[1],
                     clock |-> Min(probe.clock + dt, MaxMarchTime)]
        /\ lives' = w.lives
        /\ gold' = w.gold
        /\ score' = w.score
        /\ lastCall' = [op |-> "Enemy.update", obj |-> 0,
                        found |-> ~w.ent[1].isAlive]
  /\ UNCHANGED <<gameVars, ent, enemies, enemyPool, towerVars, ctrlVars,
                 testPool, resetCalls, sites>>

MarchNext == \E dt \in MarchDeltas : ProbeMarch(dt)

\* the game loop keeps running: there is always a next tick
SpecMarch == Init /\ [][MarchNext]_vars /\ WF_vars(MarchNext)

\* C38: whatever the positive tick durations are, an enemy with positive
\* speed that is not killed reaches the end of its path in the end: it does
\* not go to and fro about a waypoint for ever
ScoutArrives ==
  <>(hasReachedEndOn(probe.e, ScenarioPath) /\ ~probe.e.isAlive)

\* ------------------------------------------------------------------- defeat
MaxDefeatOps == 5

MaxDefeatFrames == 16

\* the ticks of the game loop
DefeatTick ==
  \/ \E dt \in DeltaTimes : Frame(dt, MaxDefeatFrames, MaxPrepFrames)
  \/ TowerPass
  \/ EnemyPass
  \/ EndFrame

\* the game started, an archer tower built beside the path and the wave
\* called for before the first frame of gameplay; all the lives taken, and
\* the game paused and resumed, at any time; the frames of the game loop
DefeatNext ==
  \/ StartGameWithin(MaxDefeatOps, 0)
  \/ StartNextWaveWithin(MaxDefeatOps, 0)
  \/ \E x \in VolleyXs : PlaceDirect(MaxDefeatOps, 0, 1, "archer", x)
  \/ CallGameTakeDamage(MaxDefeatOps, MaxDefeatFrames, 20)
  \/ TogglePauseWithin(MaxDefeatOps, MaxDefeatFrames)
  \/ DefeatTick

SpecDefeat == Init /\ [][DefeatNext]_vars

\* C39: in the state GAME_OVER a tick, and togglePause, leave the state
\* GAME_OVER and change neither lives, score nor wave index; no enemy moves
\* or is spawned, no tower fires (the towers only grow older), and the high
\* score is not written again
GameOverStays ==
  [][(/\ state = "game_over"
      /\ DefeatTick \/ TogglePauseWithin(MaxDefeatOps, MaxDefeatFrames))
       => /\ state' = "game_over"
          /\ lives' = lives /\ score' = score /\ currentWave' = currentWave
          /\ highScore' = highScore
          /\ ent' = ent /\ enemies' = enemies /\ enemyPool' = enemyPool
          /\ waves' = waves /\ spawnTimer' = spawnTimer
          /\ towers' = [i \in 1..Len(towers) |->
                          AgeTower(towers[i], deltaTime')]]_vars

\* the game has been over for some ticks, with a live enemy within the
\* range of a tower whose cooldown has passed since its latest shot
OverWithEnemyInRange ==
  /\ state = "game_over"
  /\ Len(towers) > 0
  /\ towers[1].sinceFire > 0
  /\ CooldownPassed(towers[1])
  /\ InNominalRange(towers[1], World) # {}

\* the gold spent on a tower: its price and the upgrades paid for so far
Spent(t) ==
  TowerStats[t.towerType].cost
    + (IF t.level >= 2 THEN TowerStats[t.towerType].upgradeCost ELSE 0)
    + (IF t.level >= 3
       THEN Round(TowerStats[t.towerType].upgradeCost * 16, 10) ELSE 0)

\* C40: with no kills and no wave bonuses, placing, upgrading and selling
\* towers never brings the gold above what the game started with: at every
\* level a tower sells for less than the gold spent on it
TradingNeverPays ==
  /\ gold <= 50
  /\ \A i \in 1..Len(towers) : towers[i].sellValue < Spent(towers[i])
  /\ \A type \in TowerTypes :
       LET t1 == NewTower(type, 0)
           t2 == upgrade(t1)
           t3 == upgrade(t2)
           cost == TowerStats[type].cost
       IN /\ t1.sellValue < cost
          /\ t2.sellValue < cost + t1.upgradeCost
          /\ t3.sellValue < cost + t1.upgradeCost + t2.upgradeCost

\* every tower bought has been sold again, at a loss, one of them after
\* both upgrades
SoldAfterUpgrades ==
  /\ towers = <<>>
  /\ gold = 50 - Spent([NewTower("archer", 0) EXCEPT !.level = 3])
               + upgrade(upgrade(NewTower("archer", 0))).sellValue

\* the stall lasts: between two frames, or at the end of one, with the game
\* playing, no enemy alive, no group left to spawn from and the wave not
\* completed, every further step of a frame leaves all of that as it is
StallLasts ==
  [][(/\ Stalled
      /\ ~waves[currentWaveObj].isCompleted
      /\ pc.phase \in {"idle", "end"}
      /\ CampaignFrame \/ TowerPass \/ EnemyPass \/ EndFrame)
       => (Stalled' /\ ~waves'[currentWaveObj'].isCompleted)]_vars

====
